---- MODULE Spec2Model ----
(***************************************************************************)
(* Order placement of the e-commerce backend: createOrder (placeOrder) of  *)
(* backend/src/controllers/authController.ts against the PostgreSQL schema *)
(* of database/init.sql, the pg connection pool, the admin updateProduct   *)
(* handler and the Redis product-listing cache.                            *)
(*                                                                         *)
(* Every awaited statement of createOrder is one action, so concurrent     *)
(* calls interleave exactly at the awaits.  The database runs at           *)
(* PostgreSQL's default isolation level READ COMMITTED: a SELECT sees the  *)
(* committed rows plus the transaction's own writes and never blocks; an   *)
(* UPDATE takes the row lock, waits while another open transaction holds   *)
(* it, and then works on the latest committed row.                         *)
(***************************************************************************)
EXTENDS Integers, Sequences, FiniteSets, TLC

\* ------------------------------------------------------------------ bounds
NumCalls == 2      \* concurrent createOrder calls
PoolSize == 2      \* clients of the pg pool
MaxStock == 2      \* largest stock_quantity
MaxQty == 2        \* largest requested quantity of a cart line
MaxPrice == 2      \* largest (integer) price
MaxAdminOps == 1   \* updateProduct requests
MaxListings == 2   \* product-listing requests
MaxStatusOps == 1  \* updateOrderStatus requests
MaxReads == 1      \* getUserOrders / getOrderDetails requests
NumAdmins == 2     \* concurrent requests to the admin router
MaxAdminReqs == 2  \* requests to the admin router

Calls == 1..NumCalls
Conns == 1..PoolSize
Admins == 1..NumAdmins
\* products of the catalog (init.sql seeds three; two are enough to contend on)
Products == {1, 2}
\* product ids a request may name: the catalog's and one that does not exist
RequestedIds == Products \cup {3}
UserIds == {0, 1}   \* req.user?.id; 0 stands for a missing (falsy) id

\* ------------------------------------------------------------------ state
VARIABLES
  products,     \* table products, committed rows: id -> [price, stock_quantity]
  orders,       \* table orders, committed rows
  order_items,  \* table order_items, committed rows
  orders_id_seq,\* the SERIAL sequence of orders.id (not transactional)
  tx,           \* per pool client: the server-side transaction of its session
  owner,        \* per pool client: the call that checked it out, 0 when idle
  cache,        \* Redis: the values cached under products:*, {} when no key exists
  pc,           \* per call: the statement it is about to issue
  client,       \* per call: the pool client it holds, 0 when none
  items,        \* per call: parsed.data.items
  userId,       \* per call: req.user?.id
  idx,          \* per call: position of the running for-loop
  orderItems,   \* per call: the orderItems array built by the first loop
  totalAmount,  \* per call: the running total
  order,        \* per call: orderResult.rows[0] (the id), 0 before the insert
  error,        \* per call: error.code of the caught error, "none" without one
  product,      \* per call: productResult.rows[0] of the product found short of stock
  response,     \* per call: what the caller receives
  released,     \* per call: how many times client.release() ran
  stock0,       \* history: stock_quantity of every product at the start
  adminOps,     \* number of updateProduct requests so far
  listings,     \* number of listing requests so far
  ordersAtUpdate, \* history: the committed orders when updateProduct last wrote
  invalidation, \* per call: the outcome of its delByPattern, "none" before it
  lpc,          \* the listing request: the statement it is about to issue
  fetched,      \* the listing request: the rows read from the database, {} before
  answer,       \* the listing request answered last: its source and rows
  statusOps,    \* number of updateOrderStatus requests so far
  sreq,         \* the token of the updateOrderStatus request handled last
  sres,         \* the status code it was answered with, 0 before the first
  reads,        \* number of getUserOrders / getOrderDetails requests so far
  rres,         \* the read request handled last and its response
  present,      \* table products: the ids whose row exists
  categories,   \* table categories: the ids whose row exists
  categoryOf,   \* products.category_id per product, 0 for NULL
  products_id_seq,   \* the SERIAL sequence of products.id
  categories_id_seq, \* the SERIAL sequence of categories.id
  adminReqs,    \* number of requests to the admin router so far
  apc,          \* per admin request slot: the statement it is about to issue
  areq,         \* per admin request slot: token, route and parameters
  ares,         \* per admin request slot: the status code answered, 0 before
  reqQuery,     \* per listing-key request: req.query as sent
  cacheKey,     \* per listing-key request: the cache key built, NoKey before
  dataSql,      \* per listing-key request: the query built, NoSql before
  redis,        \* the Redis server: "up", or "down" when every command fails
  awrote,       \* per admin request slot: its INSERT/UPDATE/DELETE has run
  ainv,         \* per admin request slot: the outcome of its delByPattern
  cacheTtl,     \* the expiry the cached listing was last written with, 0 for none
  localStorage, \* the browser's item 'cart': <<the array stored>>, NoItem if absent
  cartItemCount \* what getCartItemCount returned last, 0 before the first call

vars == <<products, orders, order_items, orders_id_seq, tx, owner, cache, pc,
          client, items, userId, idx, orderItems, totalAmount, order, error,
          product, response, released, stock0, adminOps, listings,
          ordersAtUpdate, invalidation, lpc, fetched, answer, statusOps, sreq,
          sres, reads, rres, present, categories, categoryOf, adminReqs, apc,
          areq, ares, products_id_seq, categories_id_seq, reqQuery, cacheKey,
          dataSql, redis, awrote, ainv, cacheTtl, localStorage,
          cartItemCount>>

dbVars == <<products, orders, order_items>>
callVars == <<pc, client, items, userId, idx, orderItems, totalAmount, order,
              error, product, response, released>>
listVars == <<lpc, fetched, answer>>
statusVars == <<statusOps, sreq, sres>>
readVars == <<reads, rres>>
catalogVars == <<present, categories, categoryOf>>
routerVars == <<adminReqs, apc, areq, ares>>
seqVars == <<products_id_seq, categories_id_seq>>
gateVars == <<catalogVars, routerVars, seqVars>>
keyVars == <<reqQuery, cacheKey, dataSql>>
invVars == <<awrote, ainv>>
cartVars == <<localStorage, cartItemCount>>
restVars == <<keyVars, redis, cacheTtl, cartVars>>
auxVars == <<restVars, invVars>>
adminVars == <<adminOps, listings, ordersAtUpdate, listVars, statusVars,
               readVars, gateVars, auxVars>>

\* ------------------------------------------------------------------ helpers
\* localStorage holds no item 'cart': getItem returns null
NoItem == <<>>

RECURSIVE SumSet(_, _)
\* sum of f(x) over the finite set S, f given as a function
SumSet(S, f) == IF S = {} THEN 0
                ELSE LET x == CHOOSE y \in S : TRUE
                     IN f[x] + SumSet(S \ {x}, f)

SeqsUpTo(S, n) == UNION {[1..k -> S] : k \in 0..n}

NoTx == [state |-> "none", orders |-> {}, order_items |-> {},
         dec |-> [p \in Products |-> 0]]

NoResponse == [kind |-> "none", status |-> 0, product |-> 0,
               available |-> 0, requested |-> 0]

Reply(kind, status) == [kind |-> kind, status |-> status, product |-> 0,
                        available |-> 0, requested |-> 0]

NoRow == [price |-> 0, stock_quantity |-> 0]

NoAnswer == [from |-> "none", rows |-> {}]

NoRequest == [token |-> "none", route |-> "none", pid |-> 0, cid |-> 0]

NoRead == [route |-> "none", uid |-> 0, oid |-> 0, code |-> 0, ids |-> {}]

\* ------------------------------------------------------------------ inputs
MinAddressLength == 10
\* a shipping address is modelled by its length: one too short, one long enough
AddressLengths == {MinAddressLength - 1, MinAddressLength}
Line(pid, q) == [productId |-> pid, quantity |-> q]
\* the carts a request may carry.  Well-formed ones: one line of one or of
\* MaxQty units, of a product of the catalog or of the missing one; two lines
\* of different products in both orders, of the same product twice, and with
\* the missing product last.  Malformed ones: no line, a quantity of 0, a
\* product id of 0.
Carts ==
  {<<Line(1, 1)>>, <<Line(1, MaxQty)>>, <<Line(2, 1)>>, <<Line(3, 1)>>,
   <<Line(1, 1), Line(2, 1)>>, <<Line(2, 1), Line(1, 1)>>,
   <<Line(1, 1), Line(1, 1)>>, <<Line(1, MaxQty), Line(2, 1)>>,
   <<Line(1, 1), Line(3, 1)>>,
   <<>>, <<Line(1, 0)>>, <<Line(0, 1)>>}
Bodies == [items : Carts, addressLength : AddressLengths]

\* a schema whose items array lacks .min(1)
createOrderSchema_NoMin(body) ==
  /\ \A i \in 1..Len(body.items) :
       body.items[i].productId > 0 /\ body.items[i].quantity > 0
  /\ body.addressLength >= MinAddressLength

\* createOrderSchema.safeParse(req.body).success
createOrderSchema(body) ==
  /\ Len(body.items) >= 1
  /\ \A i \in 1..Len(body.items) :
       body.items[i].productId > 0 /\ body.items[i].quantity > 0
  /\ body.addressLength >= MinAddressLength

\* ------------------------------------------------------------------ database
\* a products table created without the CHECK constraint
StockCheckConstraint_Missing(stock) == TRUE

\* products.stock_quantity INTEGER NOT NULL CHECK (stock_quantity >= 0)
StockCheckConstraint(stock) == stock >= 0

\* the stock a statement of the session on client c sees: the committed row
\* and the session's own uncommitted decrements
VisibleStock(c, pid) == products[pid].stock_quantity - tx[c].dec[pid]

\* the row lock of product pid is free for the session on client c
RowFree(c, pid) == \A d \in Conns \ {c} : tx[d].dec[pid] = 0

\* BEGIN: opens a transaction; inside an open one it only warns
BeginTx(t) == [t EXCEPT !.state = "open"]

\* a ROLLBACK that never reaches the server: the transaction stays as it is
RollbackTx_NotIssued(t) == t

\* ROLLBACK: drops the uncommitted writes and the row locks
RollbackTx(t) == NoTx

\* the committed tables after COMMIT of transaction t
CommitProducts(t) ==
  [p \in Products |->
     [products[p] EXCEPT !.stock_quantity = @ - t.dec[p]]]
CommitOrders(t) == orders \cup t.orders
CommitOrderItems(t) == order_items \cup t.order_items

\* ------------------------------------------------------------------ cache
\* cacheService.delByPattern('products:*'): a Redis error is caught and logged
DelByPattern(c, ok) == IF ok THEN {} ELSE c

\* whether a Redis command succeeds: any command can fail, and every one
\* does while the server is down
RedisOutcomes == IF redis = "down" THEN {FALSE} ELSE BOOLEAN

\* ------------------------------------------------------------------ listing keys
\* the two listing requests whose keys are compared
KeyRequests == {1, 2}
\* a query parameter that is absent (undefined)
Undefined == -2
\* Number(x) of a parameter that is no number
NaN == -1
\* req.query.page as sent: absent, no number, 0, 2 (after Number())
PageInputs == {Undefined, NaN, 0, 2}
\* req.query.limit as sent: absent, 8, 60
LimitInputs == {Undefined, 8, 60}
\* req.query.category as sent: absent, no number, 0, 1
CategoryInputs == {Undefined, NaN, 0, 1}
\* req.query.search as sent: absent ("undefined"), empty, "none", "laptop"
AbsentSearch == "undefined"
SearchInputs == {AbsentSearch, "", "none", "laptop"}

NoQuery == [page |-> Undefined, limit |-> Undefined, category |-> Undefined,
            search |-> AbsentSearch]
NoKey == [page |-> 0, limit |-> 0, category |-> "", search |-> ""]
NoSql == [category |-> Undefined, search |-> "", limit |-> 0, offset |-> 0]

Max(a, b) == IF a > b THEN a ELSE b
Min(a, b) == IF a < b THEN a ELSE b

\* Number(raw ?? dflt) || dflt: the default for an absent parameter, for NaN
\* and for 0
NumberOr(raw, dflt) == IF raw \in {Undefined, NaN, 0} THEN dflt ELSE raw

\* const page = Math.max(1, Number(req.query.page ?? 1) || 1)
PageOf(q) == Max(1, NumberOr(q.page, 1))
\* const limit = Math.min(50, Math.max(1, Number(req.query.limit ?? 12) || 12))
LimitOf(q) == Min(50, Max(1, NumberOr(q.limit, 12)))

\* `products:${page}:${limit}:${category || 'all'}:${search || 'none'}`, as
\* its four fields: undefined, NaN and 0 are falsy, and so is the empty string
CacheKeyOf(q) ==
  [page |-> PageOf(q),
   limit |-> LimitOf(q),
   category |-> IF q.category \in {Undefined, NaN, 0} THEN "all"
                ELSE ToString(q.category),
   search |-> IF q.search \in {AbsentSearch, ""} THEN "none" ELSE q.search]

\* the WHERE clauses and the parameters of countSql / dataSql: category_id =
\* $n when Number.isFinite(category), the ILIKE clause when search is not
\* blank; LIMIT and OFFSET
DataSqlOf(q) ==
  [category |-> IF q.category \in {Undefined, NaN} THEN Undefined
                ELSE q.category,
   search |-> IF q.search \in {AbsentSearch, ""} THEN "" ELSE q.search,
   limit |-> LimitOf(q),
   offset |-> (PageOf(q) - 1) * LimitOf(q)]

\* the route builds the cache key of request r
BuildCacheKey(r) ==
  /\ cacheKey[r] = NoKey
  /\ cacheKey' = [cacheKey EXCEPT ![r] = CacheKeyOf(reqQuery[r])]
  /\ UNCHANGED <<dbVars, orders_id_seq, tx, owner, cache, callVars, stock0,
                 adminOps, listings, ordersAtUpdate, invalidation, listVars,
                 statusVars, readVars, gateVars, reqQuery, dataSql, redis,
                 invVars, cacheTtl, cartVars>>

\* the route builds the queries of request r (on a cache miss)
BuildDataSql(r) ==
  /\ cacheKey[r] # NoKey
  /\ dataSql[r] = NoSql
  /\ dataSql' = [dataSql EXCEPT ![r] = DataSqlOf(reqQuery[r])]
  /\ UNCHANGED <<dbVars, orders_id_seq, tx, owner, cache, callVars, stock0,
                 adminOps, listings, ordersAtUpdate, invalidation, listVars,
                 statusVars, readVars, gateVars, reqQuery, cacheKey, redis,
                 invVars, cacheTtl, cartVars>>

\* ------------------------------------------------------------------ Init
InitStore(seeded) ==
  /\ \E s \in [Products -> 0..MaxStock] :
       /\ products = [p \in Products |-> [price |-> p, stock_quantity |-> s[p]]]
       /\ stock0 = s
  /\ orders = {}
  /\ order_items = {}
  /\ orders_id_seq = 1
  /\ tx = [c \in Conns |-> NoTx]
  /\ owner = [c \in Conns |-> 0]
  /\ cache = {}
  /\ pc = [p \in Calls |-> "idle"]
  /\ client = [p \in Calls |-> 0]
  /\ items = [p \in Calls |-> <<>>]
  /\ userId = [p \in Calls |-> 0]
  /\ idx = [p \in Calls |-> 0]
  /\ orderItems = [p \in Calls |-> <<>>]
  /\ totalAmount = [p \in Calls |-> 0]
  /\ order = [p \in Calls |-> 0]
  /\ error = [p \in Calls |-> "none"]
  /\ product = [p \in Calls |-> NoRow]
  /\ response = [p \in Calls |-> NoResponse]
  /\ released = [p \in Calls |-> 0]
  /\ adminOps = 0
  /\ listings = 0
  /\ ordersAtUpdate = {}
  /\ invalidation = [p \in Calls |-> "none"]
  /\ lpc = "idle"
  /\ fetched = {}
  /\ answer = NoAnswer
  /\ statusOps = 0
  /\ sreq = "none"
  /\ sres = 0
  /\ reads = 0
  /\ rres = NoRead
  /\ present = seeded
  /\ products_id_seq = Cardinality(seeded) + 1
  /\ categories = {1}
  /\ categories_id_seq = 2
  /\ categoryOf = [p \in Products |-> 0]
  /\ adminReqs = 0
  /\ apc = [a \in Admins |-> "idle"]
  /\ areq = [a \in Admins |-> NoRequest]
  /\ ares = [a \in Admins |-> 0]
  /\ awrote = [a \in Admins |-> FALSE]
  /\ ainv = [a \in Admins |-> "none"]
  /\ cacheTtl = 0
  /\ localStorage = NoItem
  /\ cartItemCount = 0

\* no listing-key request is under way
KeysIdle ==
  /\ reqQuery = [r \in KeyRequests |-> NoQuery]
  /\ cacheKey = [r \in KeyRequests |-> NoKey]
  /\ dataSql = [r \in KeyRequests |-> NoSql]

\* the store with the products of seeded
InitCatalog(seeded) == InitStore(seeded) /\ KeysIdle /\ redis = "up"

\* the catalog seeded with all the products
Init == InitCatalog(Products)

\* ------------------------------------------------------------------ createOrder
\* const client = await pool.connect()
Connect(p) ==
  /\ pc[p] = "idle"
  /\ \E c \in Conns :
       /\ owner[c] = 0
       /\ owner' = [owner EXCEPT ![c] = p]
       /\ client' = [client EXCEPT ![p] = c]
  /\ pc' = [pc EXCEPT ![p] = "begin"]
  /\ UNCHANGED <<dbVars, orders_id_seq, tx, cache, items, userId, idx,
                 orderItems, totalAmount, order, error, product, response,
                 released, stock0, adminVars, invalidation>>

\* await client.query('BEGIN'), then the validation of the body and of the
\* user id, both of which return from inside the try block
Begin(p) ==
  /\ pc[p] = "begin"
  /\ tx' = [tx EXCEPT ![client[p]] = BeginTx(@)]
  /\ \E body \in Bodies, uid \in UserIds :
       IF ~createOrderSchema(body)
       THEN /\ response' = [response EXCEPT ![p] = Reply("invalid", 400)]
            /\ pc' = [pc EXCEPT ![p] = "finally"]
            /\ UNCHANGED <<items, userId, idx>>
       ELSE IF uid = 0
       THEN /\ response' = [response EXCEPT ![p] = Reply("unauthenticated", 401)]
            /\ pc' = [pc EXCEPT ![p] = "finally"]
            /\ items' = [items EXCEPT ![p] = body.items]
            /\ UNCHANGED <<userId, idx>>
       ELSE /\ items' = [items EXCEPT ![p] = body.items]
            /\ userId' = [userId EXCEPT ![p] = uid]
            /\ IF Len(body.items) > 0
               THEN /\ idx' = [idx EXCEPT ![p] = 1]
                    /\ pc' = [pc EXCEPT ![p] = "check"]
               ELSE /\ pc' = [pc EXCEPT ![p] = "insertOrder"]
                    /\ UNCHANGED idx
            /\ UNCHANGED response
  /\ UNCHANGED <<dbVars, orders_id_seq, owner, cache, client, orderItems,
                 totalAmount, order, error, product, released, stock0,
                 adminVars, invalidation>>

\* the SELECT of the first loop finds the row of product pid, or none
ProductRow(c, pid) ==
  IF pid \in present
  THEN [price |-> products[pid].price, stock_quantity |-> VisibleStock(c, pid)]
  ELSE NoRow

\* if (product.stock_quantity < item.quantity)
InsufficientStock(row, item) == row.stock_quantity < item.quantity

\* a total that adds the price once per line, whatever the quantity
AddToTotal_IgnoresQuantity(total, row, item) == total + row.price

\* totalAmount += parseFloat(product.price) * item.quantity
AddToTotal(total, row, item) == total + row.price * item.quantity

\* orderItems.push({productId, quantity, unitPrice, availableStock});
\* availableStock is never read again and is left out
OrderItem(row, item) ==
  [productId |-> item.productId, quantity |-> item.quantity,
   unitPrice |-> row.price]

\* first loop, one iteration: SELECT the product of cart line idx, then the
\* existence and the stock check in application code
CheckItem(p) ==
  /\ pc[p] = "check"
  /\ LET item == items[p][idx[p]]
         row == ProductRow(client[p], item.productId)
     IN IF item.productId \notin present
        THEN /\ pc' = [pc EXCEPT ![p] = "rollback404"]
             /\ UNCHANGED <<idx, orderItems, totalAmount, product>>
        ELSE IF InsufficientStock(row, item)
        THEN /\ pc' = [pc EXCEPT ![p] = "rollback400"]
             /\ product' = [product EXCEPT ![p] = row]
             /\ UNCHANGED <<idx, orderItems, totalAmount>>
        ELSE /\ UNCHANGED product
             /\ totalAmount' = [totalAmount EXCEPT ![p] = AddToTotal(@, row, item)]
             /\ orderItems' = [orderItems EXCEPT ![p] = Append(@, OrderItem(row, item))]
             /\ IF idx[p] < Len(items[p])
                THEN /\ idx' = [idx EXCEPT ![p] = @ + 1]
                     /\ pc' = [pc EXCEPT ![p] = "check"]
                ELSE /\ idx' = [idx EXCEPT ![p] = 0]
                     /\ pc' = [pc EXCEPT ![p] = "insertOrder"]
  /\ UNCHANGED <<dbVars, orders_id_seq, tx, owner, cache, client, items,
                 userId, order, error, response, released, stock0, adminVars, invalidation>>

\* await client.query('ROLLBACK'); return res.status(404)...
RollbackNotFound(p) ==
  /\ pc[p] = "rollback404"
  /\ tx' = [tx EXCEPT ![client[p]] = RollbackTx(@)]
  /\ response' = [response EXCEPT ![p] =
       [Reply("not_found", 404) EXCEPT !.product = items[p][idx[p]].productId]]
  /\ pc' = [pc EXCEPT ![p] = "finally"]
  /\ UNCHANGED <<dbVars, orders_id_seq, owner, cache, client, items, userId,
                 idx, orderItems, totalAmount, order, error, product,
                 released, stock0, adminVars, invalidation>>

\* a rejection that also deletes the product cache keys
RollbackInsufficient_Invalidates(p) ==
  /\ pc[p] = "rollback400"
  /\ tx' = [tx EXCEPT ![client[p]] = RollbackTx(@)]
  /\ cache' = DelByPattern(cache, TRUE)
  /\ invalidation' = [invalidation EXCEPT ![p] = "deleted"]
  /\ response' = [response EXCEPT ![p] =
       [kind |-> "insufficient_stock", status |-> 400,
        product |-> items[p][idx[p]].productId,
        available |-> product[p].stock_quantity,
        requested |-> items[p][idx[p]].quantity]]
  /\ pc' = [pc EXCEPT ![p] = "finally"]
  /\ UNCHANGED <<dbVars, orders_id_seq, owner, client, items, userId,
                 idx, orderItems, totalAmount, order, error, product,
                 released, stock0, adminVars>>

\* a rejection that names the last line of the cart
RollbackInsufficient_ReportsLast(p) ==
  /\ pc[p] = "rollback400"
  /\ tx' = [tx EXCEPT ![client[p]] = RollbackTx(@)]
  /\ response' = [response EXCEPT ![p] =
       [kind |-> "insufficient_stock", status |-> 400,
        product |-> items[p][Len(items[p])].productId,
        available |-> product[p].stock_quantity,
        requested |-> items[p][Len(items[p])].quantity]]
  /\ pc' = [pc EXCEPT ![p] = "finally"]
  /\ UNCHANGED <<dbVars, orders_id_seq, owner, cache, client, items, userId,
                 idx, orderItems, totalAmount, order, error, product,
                 released, stock0, adminVars, invalidation>>

\* await client.query('ROLLBACK'); return res.status(400)... Available, Requested
RollbackInsufficient(p) ==
  /\ pc[p] = "rollback400"
  /\ tx' = [tx EXCEPT ![client[p]] = RollbackTx(@)]
  /\ response' = [response EXCEPT ![p] =
       [kind |-> "insufficient_stock", status |-> 400,
        product |-> items[p][idx[p]].productId,
        available |-> product[p].stock_quantity,
        requested |-> items[p][idx[p]].quantity]]
  /\ pc' = [pc EXCEPT ![p] = "finally"]
  /\ UNCHANGED <<dbVars, orders_id_seq, owner, cache, client, items, userId,
                 idx, orderItems, totalAmount, order, error, product,
                 released, stock0, adminVars, invalidation>>

\* the row of INSERT INTO orders (user_id, total_amount, status, shipping_address)
OrderRow(id, uid, total) ==
  [id |-> id, user_id |-> uid, total_amount |-> total, status |-> "pending"]

\* INSERT INTO orders ... RETURNING id
InsertOrder(p) ==
  /\ pc[p] = "insertOrder"
  /\ tx' = [tx EXCEPT ![client[p]].orders =
              @ \cup {OrderRow(orders_id_seq, userId[p], totalAmount[p])}]
  /\ order' = [order EXCEPT ![p] = orders_id_seq]
  /\ orders_id_seq' = orders_id_seq + 1
  /\ IF Len(orderItems[p]) > 0
     THEN /\ idx' = [idx EXCEPT ![p] = 1]
          /\ pc' = [pc EXCEPT ![p] = "insertItem"]
     ELSE /\ pc' = [pc EXCEPT ![p] = "commit"]
          /\ UNCHANGED idx
  /\ UNCHANGED <<dbVars, owner, cache, client, items, userId, orderItems,
                 totalAmount, error, product, response, released, stock0,
                 adminVars, invalidation>>

\* the row of INSERT INTO order_items (order_id, product_id, unit_price, quantity);
\* line stands for the row's SERIAL id (the rows of one order in insert order)
OrderItemRow(oid, line, item) ==
  [order_id |-> oid, line |-> line, product_id |-> item.productId,
   unit_price |-> item.unitPrice, quantity |-> item.quantity]

\* second loop, first statement: INSERT INTO order_items.  The row must
\* reference an existing product (error 23503 otherwise) and keeps that
\* product from being deleted while the transaction is open.
InsertOrderItem(p) ==
  /\ pc[p] = "insertItem"
  /\ IF orderItems[p][idx[p]].productId \in present
     THEN /\ tx' = [tx EXCEPT ![client[p]].order_items =
                 @ \cup {OrderItemRow(order[p], idx[p], orderItems[p][idx[p]])}]
          /\ pc' = [pc EXCEPT ![p] = "updateStock"]
          /\ UNCHANGED error
     ELSE /\ error' = [error EXCEPT ![p] = "23503"]
          /\ pc' = [pc EXCEPT ![p] = "catch"]
          /\ UNCHANGED tx
  /\ UNCHANGED <<dbVars, orders_id_seq, owner, cache, client, items, userId,
                 idx, orderItems, totalAmount, order, product,
                 response, released, stock0, adminVars, invalidation>>

\* SET stock_quantity = stock_quantity - $1
NewStock(stock, quantity) == stock - quantity

\* an UPDATE products SET stock_quantity = ... without its WHERE id = $2: it
\* decrements every row
UpdateStock_NoWhere(p) ==
  /\ pc[p] = "updateStock"
  /\ LET c == client[p]
         item == orderItems[p][idx[p]]
     IN /\ \A pid \in Products : RowFree(c, pid)
        /\ IF \A pid \in Products :
                StockCheckConstraint(NewStock(VisibleStock(c, pid), item.quantity))
           THEN /\ tx' = [tx EXCEPT ![c].dec =
                            [pid \in Products |-> @[pid] + item.quantity]]
                /\ UNCHANGED error
                /\ IF idx[p] < Len(orderItems[p])
                   THEN /\ idx' = [idx EXCEPT ![p] = @ + 1]
                        /\ pc' = [pc EXCEPT ![p] = "insertItem"]
                   ELSE /\ idx' = [idx EXCEPT ![p] = 0]
                        /\ pc' = [pc EXCEPT ![p] = "commit"]
           ELSE /\ error' = [error EXCEPT ![p] = "23514"]
                /\ pc' = [pc EXCEPT ![p] = "catch"]
                /\ UNCHANGED <<tx, idx>>
  /\ UNCHANGED <<dbVars, orders_id_seq, owner, cache, client, items, userId,
                 orderItems, totalAmount, order, product, response, released,
                 stock0, adminVars, invalidation>>

\* second loop, second statement: UPDATE products SET stock_quantity = ... .
\* It waits for the row lock; the CHECK constraint rejects a negative result
\* with error 23514, which lands in the catch block.
UpdateStock(p) ==
  /\ pc[p] = "updateStock"
  /\ LET c == client[p]
         item == orderItems[p][idx[p]]
         new == NewStock(VisibleStock(c, item.productId), item.quantity)
     IN /\ RowFree(c, item.productId)
        /\ IF StockCheckConstraint(new)
           THEN /\ tx' = [tx EXCEPT ![c].dec[item.productId] = @ + item.quantity]
                /\ UNCHANGED error
                /\ IF idx[p] < Len(orderItems[p])
                   THEN /\ idx' = [idx EXCEPT ![p] = @ + 1]
                        /\ pc' = [pc EXCEPT ![p] = "insertItem"]
                   ELSE /\ idx' = [idx EXCEPT ![p] = 0]
                        /\ pc' = [pc EXCEPT ![p] = "commit"]
           ELSE /\ error' = [error EXCEPT ![p] = "23514"]
                /\ pc' = [pc EXCEPT ![p] = "catch"]
                /\ UNCHANGED <<tx, idx>>
  /\ UNCHANGED <<dbVars, orders_id_seq, owner, cache, client, items, userId,
                 orderItems, totalAmount, order, product, response, released,
                 stock0, adminVars, invalidation>>

\* await client.query('COMMIT')
Commit(p) ==
  /\ pc[p] = "commit"
  /\ products' = CommitProducts(tx[client[p]])
  /\ orders' = CommitOrders(tx[client[p]])
  /\ order_items' = CommitOrderItems(tx[client[p]])
  /\ tx' = [tx EXCEPT ![client[p]] = NoTx]
  /\ pc' = [pc EXCEPT ![p] = "invalidate"]
  /\ UNCHANGED <<orders_id_seq, owner, cache, client, items, userId, idx,
                 orderItems, totalAmount, order, error, product, response,
                 released, stock0, adminVars, invalidation>>

\* an invalidation whose cache failure is thrown into the catch block
InvalidateProductCache_Throws(p) ==
  /\ pc[p] = "invalidate"
  /\ \E ok \in RedisOutcomes :
       /\ cache' = DelByPattern(cache, ok)
       /\ invalidation' = [invalidation EXCEPT ![p] =
                             IF ok THEN "deleted" ELSE "failed"]
       /\ pc' = [pc EXCEPT ![p] = IF ok THEN "readBack" ELSE "catch"]
       /\ error' = [error EXCEPT ![p] = IF ok THEN @ ELSE "cache"]
  /\ UNCHANGED <<dbVars, orders_id_seq, tx, owner, client, items, userId, idx,
                 orderItems, totalAmount, order, product, response,
                 released, stock0, adminVars>>

\* await invalidateProductCache(): a cache failure is logged and swallowed
InvalidateProductCache(p) ==
  /\ pc[p] = "invalidate"
  /\ \E ok \in RedisOutcomes :
       /\ cache' = DelByPattern(cache, ok)
       /\ invalidation' = [invalidation EXCEPT ![p] =
                             IF ok THEN "deleted" ELSE "failed"]
  /\ pc' = [pc EXCEPT ![p] = "readBack"]
  /\ UNCHANGED <<dbVars, orders_id_seq, tx, owner, client, items, userId, idx,
                 orderItems, totalAmount, order, error, product, response,
                 released, stock0, adminVars>>

\* the two read-back SELECTs after the commit (order header, order items),
\* then res.status(201)
ReadBack(p) ==
  /\ pc[p] = "readBack"
  /\ response' = [response EXCEPT ![p] = Reply("created", 201)]
  /\ pc' = [pc EXCEPT ![p] = "finally"]
  /\ UNCHANGED <<dbVars, orders_id_seq, tx, owner, cache, client, items,
                 userId, idx, orderItems, totalAmount, order, error, product,
                 released, stock0, adminVars, invalidation>>

\* the statements of the try block; any of them can be rejected by the store
\* (connection loss, constraint violation): the await throws into the catch
\* block.  A rejected COMMIT commits nothing.
Statements == {"begin", "check", "rollback404", "rollback400", "insertOrder",
               "insertItem", "updateStock", "commit", "readBack"}

StatementFails(p) ==
  /\ pc[p] \in Statements
  /\ error' = [error EXCEPT ![p] = "io"]
  /\ pc' = [pc EXCEPT ![p] = "catch"]
  /\ UNCHANGED <<dbVars, orders_id_seq, tx, owner, cache, client, items,
                 userId, idx, orderItems, totalAmount, order, product,
                 response, released, stock0, adminVars, invalidation>>

\* call p waits in its UPDATE for a row lock that another session holds
Blocked(p) ==
  /\ pc[p] = "updateStock"
  /\ ~RowFree(client[p], orderItems[p][idx[p]].productId)

\* the call whose session holds the row lock that blocked call p waits for
Holder(p) ==
  owner[CHOOSE d \in Conns \ {client[p]} :
          tx[d].dec[orderItems[p][idx[p]].productId] > 0]

RECURSIVE WaitsFor(_, _, _)
\* p waits, through at most n blocked calls, for a lock that q holds
WaitsFor(p, q, n) ==
  /\ n > 0
  /\ p \in Calls
  /\ Blocked(p)
  /\ \/ Holder(p) = q
     \/ WaitsFor(Holder(p), q, n - 1)

\* PostgreSQL's deadlock detector: a session that waits in a cycle of row
\* locks has its statement cancelled with error 40P01
DeadlockDetected(p) ==
  /\ WaitsFor(p, p, NumCalls)
  /\ error' = [error EXCEPT ![p] = "40P01"]
  /\ pc' = [pc EXCEPT ![p] = "catch"]
  /\ UNCHANGED <<dbVars, orders_id_seq, tx, owner, cache, client, items,
                 userId, idx, orderItems, totalAmount, order, product,
                 response, released, stock0, adminVars, invalidation>>

\* a catch block that reports the error without the ROLLBACK
Catch_NoRollback(p) ==
  /\ pc[p] = "catch"
  /\ response' = [response EXCEPT ![p] = Reply("internal", 500)]
  /\ pc' = [pc EXCEPT ![p] = "finally"]
  /\ UNCHANGED <<dbVars, orders_id_seq, tx, owner, cache, client, items,
                 userId, idx, orderItems, totalAmount, order, error, product,
                 released, stock0, adminVars, invalidation>>

\* a catch block that also releases the client, ahead of the finally block
Catch_AlsoReleases(p) ==
  /\ pc[p] = "catch"
  /\ tx' = [tx EXCEPT ![client[p]] = RollbackTx(@)]
  /\ owner' = [owner EXCEPT ![client[p]] = 0]
  /\ released' = [released EXCEPT ![p] = @ + 1]
  /\ response' = [response EXCEPT ![p] = Reply("internal", 500)]
  /\ pc' = [pc EXCEPT ![p] = "finally"]
  /\ UNCHANGED <<dbVars, orders_id_seq, cache, client, items, userId, idx,
                 orderItems, totalAmount, order, error, product, stock0,
                 adminVars, invalidation>>

\* catch (error) { await client.query('ROLLBACK'); ...; throw error }: the
\* global error handler answers 500
Catch(p) ==
  /\ pc[p] = "catch"
  /\ tx' = [tx EXCEPT ![client[p]] = RollbackTx(@)]
  /\ response' = [response EXCEPT ![p] = Reply("internal", 500)]
  /\ pc' = [pc EXCEPT ![p] = "finally"]
  /\ UNCHANGED <<dbVars, orders_id_seq, owner, cache, client, items, userId,
                 idx, orderItems, totalAmount, order, error, product,
                 released, stock0, adminVars, invalidation>>

\* finally { client.release() }: the client goes back to the pool as it is
Release(p) ==
  /\ pc[p] = "finally"
  /\ owner' = [owner EXCEPT ![client[p]] = 0]
  /\ client' = [client EXCEPT ![p] = 0]
  /\ released' = [released EXCEPT ![p] = @ + 1]
  /\ pc' = [pc EXCEPT ![p] = "done"]
  /\ idx' = [idx EXCEPT ![p] = 0]
  /\ orderItems' = [orderItems EXCEPT ![p] = <<>>]
  /\ totalAmount' = [totalAmount EXCEPT ![p] = 0]
  /\ product' = [product EXCEPT ![p] = NoRow]
  /\ UNCHANGED <<dbVars, orders_id_seq, tx, cache, items, userId, order,
                 error, response, stock0, adminVars, invalidation>>

\* ------------------------------------------------------------------ admin
\* the body of PUT /api/admin/products/:productId: sent names the fields
\* that are present (the others are undefined)
UpdateBodies == [sent : SUBSET {"price", "stock_quantity"},
                 price : 0..MaxPrice, stock_quantity : -1..MaxStock]

\* updateProductSchema.safeParse(req.body).success
updateProductSchema(body) ==
  /\ "price" \in body.sent => body.price > 0
  /\ "stock_quantity" \in body.sent => body.stock_quantity >= 0

\* UPDATE products SET <the fields sent> WHERE id = $n
UpdatedRow(row, body) ==
  [price |-> IF "price" \in body.sent THEN body.price ELSE row.price,
   stock_quantity |-> IF "stock_quantity" \in body.sent
                      THEN body.stock_quantity ELSE row.stock_quantity]

\* an updateProduct whose price change is carried into the order lines of the
\* product
updateProduct_RepricesOrders(pid) ==
  /\ adminOps < MaxAdminOps
  /\ adminOps' = adminOps + 1
  /\ \E body \in UpdateBodies :
       IF \/ ~updateProductSchema(body)
          \/ body.sent = {}
          \/ ~StockCheckConstraint(UpdatedRow(products[pid], body).stock_quantity)
       THEN UNCHANGED <<products, order_items, cache, ordersAtUpdate>>
       ELSE /\ \A d \in Conns : tx[d].dec[pid] = 0
            /\ products' = [products EXCEPT ![pid] = UpdatedRow(@, body)]
            /\ order_items' =
                 {IF r.product_id = pid
                  THEN [r EXCEPT !.unit_price = UpdatedRow(products[pid], body).price]
                  ELSE r : r \in order_items}
            /\ ordersAtUpdate' = orders
            /\ \E ok \in RedisOutcomes : cache' = DelByPattern(cache, ok)
  /\ UNCHANGED <<orders, orders_id_seq, tx, owner, callVars, stock0, listings,
                 invalidation, listVars, statusVars, readVars, auxVars, gateVars>>

\* updateProduct: validation (400), the existence check, one autocommitted
\* UPDATE (it waits for the row lock; a CHECK violation ends in 500), then
\* the cache invalidation
updateProduct(pid) ==
  /\ adminOps < MaxAdminOps
  /\ adminOps' = adminOps + 1
  /\ \E body \in UpdateBodies :
       IF \/ ~updateProductSchema(body)
          \/ body.sent = {}
          \/ ~StockCheckConstraint(UpdatedRow(products[pid], body).stock_quantity)
       THEN UNCHANGED <<products, cache, ordersAtUpdate>>
       ELSE /\ \A d \in Conns : tx[d].dec[pid] = 0
            /\ products' = [products EXCEPT ![pid] = UpdatedRow(@, body)]
            /\ ordersAtUpdate' = orders
            /\ \E ok \in RedisOutcomes : cache' = DelByPattern(cache, ok)
  /\ UNCHANGED <<orders, order_items, orders_id_seq, tx, owner, callVars,
                 stock0, listings, invalidation, listVars, statusVars,
                 readVars, auxVars, gateVars>>

\* ------------------------------------------------------------------ listing
\* a cacheService.get that lets the Redis error through: the route's catch
\* block answers 500
ListGet_Throws ==
  /\ lpc = "idle"
  /\ listings < MaxListings
  /\ listings' = listings + 1
  /\ \E ok \in RedisOutcomes :
       IF ~ok
       THEN /\ answer' = [from |-> "error", rows |-> {}]
            /\ UNCHANGED lpc
       ELSE IF cache # {}
       THEN /\ answer' = [from |-> "cache", rows |-> cache]
            /\ UNCHANGED lpc
       ELSE /\ lpc' = "read"
            /\ UNCHANGED answer
  /\ UNCHANGED <<dbVars, orders_id_seq, tx, owner, cache, callVars, stock0,
                 adminOps, ordersAtUpdate, invalidation, fetched, statusVars,
                 readVars, auxVars, gateVars>>

\* GET /api/products, cacheService.get(cacheKey): a hit answers from the
\* cache; a miss, or a Redis error (get returns null), goes on to the database
ListGet ==
  /\ lpc = "idle"
  /\ listings < MaxListings
  /\ listings' = listings + 1
  /\ \E ok \in RedisOutcomes :
       IF ok /\ cache # {}
       THEN /\ answer' = [from |-> "cache", rows |-> cache]
            /\ UNCHANGED lpc
       ELSE /\ lpc' = "read"
            /\ UNCHANGED answer
  /\ UNCHANGED <<dbVars, orders_id_seq, tx, owner, cache, callVars, stock0,
                 adminOps, ordersAtUpdate, invalidation, fetched, statusVars,
                 readVars, auxVars, gateVars>>

\* the count and the data SELECT on the pool: the committed rows
ListRead ==
  /\ lpc = "read"
  /\ fetched' = {products}
  /\ lpc' = "set"
  /\ UNCHANGED <<dbVars, orders_id_seq, tx, owner, cache, callVars, stock0,
                 adminOps, listings, ordersAtUpdate, invalidation, answer,
                 statusVars, readVars, auxVars, gateVars>>

\* the TTL in seconds the listing route passes to cacheService.set
ListingTtl == 60
\* a cacheService.set that stores the entry with SET, without an expiry
ListSet_NoExpiry ==
  /\ lpc = "set"
  /\ \E ok \in RedisOutcomes :
       /\ cache' = IF ok THEN fetched ELSE cache
       /\ cacheTtl' = IF ok THEN 0 ELSE cacheTtl
  /\ answer' = [from |-> "db", rows |-> fetched]
  /\ fetched' = {}
  /\ lpc' = "idle"
  /\ UNCHANGED <<dbVars, orders_id_seq, tx, owner, callVars, stock0, adminOps,
                 listings, ordersAtUpdate, invalidation, statusVars, readVars,
                 keyVars, redis, invVars, gateVars, cartVars>>

\* cacheService.set(cacheKey, response, 60): redis.setex(key, ttl, value), a
\* Redis error being swallowed, then res.json(response)
ListSet ==
  /\ lpc = "set"
  /\ \E ok \in RedisOutcomes :
       /\ cache' = IF ok THEN fetched ELSE cache
       /\ cacheTtl' = IF ok THEN ListingTtl ELSE cacheTtl
  /\ answer' = [from |-> "db", rows |-> fetched]
  /\ fetched' = {}
  /\ lpc' = "idle"
  /\ UNCHANGED <<dbVars, orders_id_seq, tx, owner, callVars, stock0, adminOps,
                 listings, ordersAtUpdate, invalidation, statusVars, readVars,
                 keyVars, redis, invVars, gateVars, cartVars>>

\* Redis removes an entry that was stored with an expiry when its TTL has
\* run out
CacheExpires ==
  /\ cache # {}
  /\ cacheTtl > 0
  /\ cache' = {}
  /\ UNCHANGED <<dbVars, orders_id_seq, tx, owner, callVars, stock0, adminVars,
                 invalidation>>

\* ------------------------------------------------------------------ auth
\* what a request carries as Authorization: no token, a token that
\* jwt.verify rejects, or a verified token of a customer or of an admin
\* (login signs {id, email, role}, so a verified token has a user id)
Tokens == {"none", "invalid", "customer", "admin"}

\* authenticateToken: 401 without a token, 403 with an invalid one, else
\* next() (0)
authenticateToken(token) ==
  IF token = "none" THEN 401 ELSE IF token = "invalid" THEN 403 ELSE 0

\* ------------------------------------------------------------------ order status
Statuses == {"pending", "confirmed", "shipped", "delivered", "cancelled"}

\* updateOrderStatusSchema.safeParse(req.body).success
updateOrderStatusSchema(status) == status \in Statuses

\* parseInt(req.params.orderId) of a parameter that is no number
NaNId == -1
\* the order ids a request may name: no number, the ids the sequence hands
\* out, and one beyond them
RequestedOrderIds == {NaNId} \cup (1..NumCalls + 1)

\* UPDATE orders SET status = $1 WHERE id = $2
SetStatus(rows, oid, status) ==
  {IF o.id = oid THEN [o EXCEPT !.status = status] ELSE o : o \in rows}

\* an updateOrderStatus without the role check
updateOrderStatus_NoRoleCheck ==
  /\ statusOps < MaxStatusOps
  /\ statusOps' = statusOps + 1
  /\ \E token \in Tokens, oid \in RequestedOrderIds,
        status \in Statuses \cup {"refunded"} :
       /\ sreq' = token
       /\ IF authenticateToken(token) # 0
          THEN sres' = authenticateToken(token) /\ UNCHANGED orders
          ELSE IF oid = NaNId \/ ~updateOrderStatusSchema(status)
          THEN sres' = 400 /\ UNCHANGED orders
          ELSE IF oid \notin {o.id : o \in orders}
          THEN sres' = 404 /\ UNCHANGED orders
          ELSE sres' = 200 /\ orders' = SetStatus(orders, oid, status)
  /\ UNCHANGED <<products, order_items, orders_id_seq, tx, owner, cache,
                 callVars, stock0, adminOps, listings, ordersAtUpdate,
                 invalidation, listVars, readVars, auxVars, gateVars>>

\* PATCH /api/orders/admin/:orderId/status: authenticateToken of the orders
\* router, then updateOrderStatus: the role check, the id and body
\* validation, and one autocommitted UPDATE (404 when it matches no row)
updateOrderStatus ==
  /\ statusOps < MaxStatusOps
  /\ statusOps' = statusOps + 1
  /\ \E token \in Tokens, oid \in RequestedOrderIds,
        status \in Statuses \cup {"refunded"} :
       /\ sreq' = token
       /\ IF authenticateToken(token) # 0
          THEN sres' = authenticateToken(token) /\ UNCHANGED orders
          ELSE IF token # "admin"
          THEN sres' = 403 /\ UNCHANGED orders
          ELSE IF oid = NaNId \/ ~updateOrderStatusSchema(status)
          THEN sres' = 400 /\ UNCHANGED orders
          ELSE IF oid \notin {o.id : o \in orders}
          THEN sres' = 404 /\ UNCHANGED orders
          ELSE sres' = 200 /\ orders' = SetStatus(orders, oid, status)
  /\ UNCHANGED <<products, order_items, orders_id_seq, tx, owner, cache,
                 callVars, stock0, adminOps, listings, ordersAtUpdate,
                 invalidation, listVars, readVars, auxVars, gateVars>>

\* ------------------------------------------------------------------ order reads
\* req.user.id of the reader: 0 for a missing id, the customer who places the
\* orders (1), and another customer (2)
ReaderIds == {0, 1, 2}

\* getUserOrders: SELECT ... FROM orders o ... WHERE o.user_id = $1
getUserOrders ==
  /\ reads < MaxReads
  /\ reads' = reads + 1
  /\ \E uid \in ReaderIds :
       rres' = IF uid = 0
               THEN [NoRead EXCEPT !.route = "getUserOrders", !.code = 401]
               ELSE [route |-> "getUserOrders", uid |-> uid, oid |-> 0,
                     code |-> 200,
                     ids |-> {o.id : o \in {x \in orders : x.user_id = uid}}]
  /\ UNCHANGED <<dbVars, orders_id_seq, tx, owner, cache, callVars, stock0,
                 adminOps, listings, ordersAtUpdate, invalidation, listVars,
                 statusVars, gateVars, auxVars>>

\* the JSON functions PostgreSQL provides for building values
JsonFunctions == {"json_agg", "json_build_object", "json_build_array"}
\* the functions orderQuery of getOrderDetails calls
OrderQueryCalls == {"json_agg", "json_build"}

\* the rows of orderQuery: orders JOIN order_items JOIN products
\* WHERE o.id = $1 AND o.user_id = $2
OrderQueryRows(oid, uid) ==
  {o.id : o \in {x \in orders : /\ x.id = oid
                                /\ x.user_id = uid
                                /\ \E r \in order_items : r.order_id = x.id}}

\* getOrderDetails: 401 without a user id, 400 for an id that is no number;
\* the query is rejected when it calls a function the server does not have
\* (the catch block answers 500); 404 when it returns no row
getOrderDetails ==
  /\ reads < MaxReads
  /\ reads' = reads + 1
  /\ \E uid \in ReaderIds, oid \in RequestedOrderIds :
       LET req == [NoRead EXCEPT !.route = "getOrderDetails", !.uid = uid,
                                 !.oid = oid]
       IN rres' = IF uid = 0 THEN [req EXCEPT !.code = 401]
                  ELSE IF oid = NaNId THEN [req EXCEPT !.code = 400]
                  ELSE IF ~(OrderQueryCalls \subseteq JsonFunctions)
                  THEN [req EXCEPT !.code = 500]
                  ELSE IF OrderQueryRows(oid, uid) = {}
                  THEN [req EXCEPT !.code = 404]
                  ELSE [req EXCEPT !.code = 200,
                                   !.ids = OrderQueryRows(oid, uid)]
  /\ UNCHANGED <<dbVars, orders_id_seq, tx, owner, cache, callVars, stock0,
                 adminOps, listings, ordersAtUpdate, invalidation, listVars,
                 statusVars, gateVars, auxVars>>

\* ------------------------------------------------------------------ admin router
\* a request with a verified admin token has passed the router's middleware
Admit(a) ==
  /\ apc[a] = "idle"
  /\ adminReqs < MaxAdminReqs
  /\ adminReqs' = adminReqs + 1
  /\ areq' = [areq EXCEPT ![a] = [NoRequest EXCEPT !.token = "admin"]]
  /\ ares' = [ares EXCEPT ![a] = 0]
  /\ apc' = [apc EXCEPT ![a] = "admitted"]
  /\ awrote' = [awrote EXCEPT ![a] = FALSE]
  /\ ainv' = [ainv EXCEPT ![a] = "none"]
  /\ UNCHANGED <<dbVars, orders_id_seq, tx, owner, cache, callVars, stock0,
                 adminOps, listings, ordersAtUpdate, invalidation, listVars,
                 statusVars, readVars, restVars, seqVars, catalogVars>>

\* the handler of slot a answers with code and returns
Answer(a, code) ==
  /\ ares' = [ares EXCEPT ![a] = code]
  /\ apc' = [apc EXCEPT ![a] = "idle"]

\* the write statement of slot a's handler has returned; the handler goes on
\* to await invalidateProductCache()
Written(a) ==
  /\ awrote' = [awrote EXCEPT ![a] = TRUE]
  /\ apc' = [apc EXCEPT ![a] = "invalidate"]
  /\ UNCHANGED ares

\* the status of the handler's success response: 201 for the two creates
\* (res.status(201)), 200 for the rest (res.json)
SuccessCode(route) ==
  IF route \in {"createProduct", "createCategory"} THEN 201 ELSE 200

\* a handler that answers without invalidating the cache
InvalidateCatalogCache_Skipped(a) ==
  /\ apc[a] = "invalidate"
  /\ Answer(a, SuccessCode(areq[a].route))
  /\ UNCHANGED <<dbVars, orders_id_seq, tx, owner, cache, callVars, stock0,
                 adminOps, listings, ordersAtUpdate, invalidation, listVars,
                 statusVars, readVars, auxVars, seqVars, catalogVars,
                 adminReqs, areq>>

\* await invalidateProductCache() of the admin controller (a cache failure
\* is logged and swallowed), then the success response
InvalidateCatalogCache(a) ==
  /\ apc[a] = "invalidate"
  /\ \E ok \in RedisOutcomes :
       /\ cache' = DelByPattern(cache, ok)
       /\ ainv' = [ainv EXCEPT ![a] = IF ok THEN "deleted" ELSE "failed"]
  /\ Answer(a, SuccessCode(areq[a].route))
  /\ UNCHANGED <<dbVars, orders_id_seq, tx, owner, callVars, stock0,
                 adminOps, listings, ordersAtUpdate, invalidation, listVars,
                 statusVars, readVars, restVars, awrote, seqVars, catalogVars,
                 adminReqs, areq>>

\* order_items.product_id REFERENCES products(id) ON DELETE RESTRICT: a
\* product can be deleted when no row of rows references it
ProductForeignKey_Missing(rows, pid) == TRUE

ProductForeignKey(rows, pid) == \A r \in rows : r.product_id # pid

\* no open transaction holds a lock on the row of product pid (through an
\* UPDATE of it or through an inserted order line that references it)
ProductUnlocked(pid) ==
  \A c \in Conns :
    tx[c].dec[pid] = 0 /\ ProductForeignKey(tx[c].order_items, pid)

\* deleteProduct: SELECT id, name FROM products WHERE id = $1 (404 if none)
DeleteProductFind(a) ==
  /\ apc[a] = "admitted"
  /\ \E pid \in RequestedIds :
       /\ areq' = [areq EXCEPT ![a].route = "deleteProduct", ![a].pid = pid]
       /\ IF pid \in present
          THEN apc' = [apc EXCEPT ![a] = "delCount"] /\ UNCHANGED ares
          ELSE Answer(a, 404)
  /\ UNCHANGED <<dbVars, orders_id_seq, tx, owner, cache, callVars, stock0,
                 adminOps, listings, ordersAtUpdate, invalidation, listVars,
                 statusVars, readVars, auxVars, seqVars, catalogVars, adminReqs>>

\* deleteProduct: SELECT COUNT(*) FROM order_items WHERE product_id = $1
\* (400 if the product has order lines)
DeleteProductCount(a) ==
  /\ apc[a] = "delCount"
  /\ IF \E r \in order_items : r.product_id = areq[a].pid
     THEN Answer(a, 400)
     ELSE apc' = [apc EXCEPT ![a] = "delete"] /\ UNCHANGED ares
  /\ UNCHANGED <<dbVars, orders_id_seq, tx, owner, cache, callVars, stock0,
                 adminOps, listings, ordersAtUpdate, invalidation, listVars,
                 statusVars, readVars, auxVars, seqVars, catalogVars, adminReqs, areq>>

\* deleteProduct: DELETE FROM products WHERE id = $1 (it waits for the row
\* lock; a foreign-key violation lands in the catch block, 500)
DeleteProductDelete(a) ==
  /\ apc[a] = "delete"
  /\ ProductUnlocked(areq[a].pid)
  /\ IF ProductForeignKey(order_items, areq[a].pid)
     THEN /\ present' = present \ {areq[a].pid}
          /\ Written(a)
     ELSE /\ Answer(a, 500)
          /\ UNCHANGED <<present, awrote>>
  /\ UNCHANGED <<dbVars, orders_id_seq, tx, owner, cache, callVars, stock0,
                 adminOps, listings, ordersAtUpdate, invalidation, listVars,
                 statusVars, readVars, restVars, ainv, seqVars, categories,
                 categoryOf, adminReqs, areq>>

\* the category ids a request may name: the seeded one and one beyond it
RequestedCategoryIds == {1, 2}

\* products.category_id REFERENCES categories(id): the referenced row exists
CategoryForeignKey(cats, cid) == cid \in cats

\* products.category_id ... ON DELETE SET NULL: the products of a deleted
\* category lose it
CategoryOnDelete(cid) ==
  categoryOf' = [p \in Products |-> IF categoryOf[p] = cid THEN 0
                                    ELSE categoryOf[p]]

\* updateProduct with body {category_id}: SELECT id FROM products (404)
UpdateProductFind(a) ==
  /\ apc[a] = "admitted"
  /\ \E pid \in RequestedIds, cid \in RequestedCategoryIds :
       /\ areq' = [areq EXCEPT ![a].route = "updateProduct", ![a].pid = pid,
                               ![a].cid = cid]
       /\ IF pid \in present
          THEN apc' = [apc EXCEPT ![a] = "updCategory"] /\ UNCHANGED ares
          ELSE Answer(a, 404)
  /\ UNCHANGED <<dbVars, orders_id_seq, tx, owner, cache, callVars, stock0,
                 adminOps, listings, ordersAtUpdate, invalidation, listVars,
                 statusVars, readVars, auxVars, seqVars, catalogVars, adminReqs>>

\* updateProduct: SELECT id FROM categories WHERE id = $1 (400 if none)
UpdateProductCategory(a) ==
  /\ apc[a] = "updCategory"
  /\ IF areq[a].cid \in categories
     THEN apc' = [apc EXCEPT ![a] = "update"] /\ UNCHANGED ares
     ELSE Answer(a, 400)
  /\ UNCHANGED <<dbVars, orders_id_seq, tx, owner, cache, callVars, stock0,
                 adminOps, listings, ordersAtUpdate, invalidation, listVars,
                 statusVars, readVars, auxVars, seqVars, catalogVars, adminReqs, areq>>

\* updateProduct: UPDATE products SET category_id = $1 WHERE id = $2 (a
\* foreign-key violation is answered 500; a row that is gone is no error:
\* the statement updates nothing and the handler goes on as after a write)
UpdateProductWrite(a) ==
  /\ apc[a] = "update"
  /\ ProductUnlocked(areq[a].pid)
  /\ IF areq[a].pid \notin present
     THEN Written(a) /\ UNCHANGED categoryOf
     ELSE IF ~CategoryForeignKey(categories, areq[a].cid)
     THEN Answer(a, 500) /\ UNCHANGED <<categoryOf, awrote>>
     ELSE /\ categoryOf' = [categoryOf EXCEPT ![areq[a].pid] = areq[a].cid]
          /\ Written(a)
  /\ UNCHANGED <<dbVars, orders_id_seq, tx, owner, cache, callVars, stock0,
                 adminOps, listings, ordersAtUpdate, invalidation, listVars,
                 statusVars, readVars, restVars, ainv, seqVars, present,
                 categories, adminReqs, areq>>

\* deleteCategory: SELECT id FROM categories WHERE id = $1 (404 if none)
DeleteCategoryFind(a) ==
  /\ apc[a] = "admitted"
  /\ \E cid \in RequestedCategoryIds :
       /\ areq' = [areq EXCEPT ![a].route = "deleteCategory", ![a].cid = cid]
       /\ IF cid \in categories
          THEN apc' = [apc EXCEPT ![a] = "catCount"] /\ UNCHANGED ares
          ELSE Answer(a, 404)
  /\ UNCHANGED <<dbVars, orders_id_seq, tx, owner, cache, callVars, stock0,
                 adminOps, listings, ordersAtUpdate, invalidation, listVars,
                 statusVars, readVars, auxVars, seqVars, catalogVars, adminReqs>>

\* deleteCategory: SELECT COUNT(*) FROM products WHERE category_id = $1
\* (400 if the category has products)
DeleteCategoryCount(a) ==
  /\ apc[a] = "catCount"
  /\ IF \E p \in present : categoryOf[p] = areq[a].cid
     THEN Answer(a, 400)
     ELSE apc' = [apc EXCEPT ![a] = "catDelete"] /\ UNCHANGED ares
  /\ UNCHANGED <<dbVars, orders_id_seq, tx, owner, cache, callVars, stock0,
                 adminOps, listings, ordersAtUpdate, invalidation, listVars,
                 statusVars, readVars, auxVars, seqVars, catalogVars, adminReqs, areq>>

\* deleteCategory: DELETE FROM categories WHERE id = $1
DeleteCategoryDelete(a) ==
  /\ apc[a] = "catDelete"
  /\ categories' = categories \ {areq[a].cid}
  /\ CategoryOnDelete(areq[a].cid)
  /\ Written(a)
  /\ UNCHANGED <<dbVars, orders_id_seq, tx, owner, cache, callVars, stock0,
                 adminOps, listings, ordersAtUpdate, invalidation, listVars,
                 statusVars, readVars, restVars, ainv, seqVars, present,
                 adminReqs, areq>>

\* requireAdmin: 403 unless the verified token's role is admin, else next() (0)
requireAdmin(token) == IF token = "admin" THEN 0 ELSE 403

\* a request to /api/admin/... arrives with some Authorization
Arrive(a) ==
  /\ apc[a] = "idle"
  /\ adminReqs < MaxAdminReqs
  /\ adminReqs' = adminReqs + 1
  /\ \E token \in Tokens :
       areq' = [areq EXCEPT ![a] = [NoRequest EXCEPT !.token = token]]
  /\ ares' = [ares EXCEPT ![a] = 0]
  /\ apc' = [apc EXCEPT ![a] = "gate"]
  /\ awrote' = [awrote EXCEPT ![a] = FALSE]
  /\ ainv' = [ainv EXCEPT ![a] = "none"]
  /\ UNCHANGED <<dbVars, orders_id_seq, tx, owner, cache, callVars, stock0,
                 adminOps, listings, ordersAtUpdate, invalidation, listVars,
                 statusVars, readVars, restVars, seqVars, catalogVars>>

\* a router that only authenticates
AdminGate_NoRoleCheck(a) ==
  /\ apc[a] = "gate"
  /\ IF authenticateToken(areq[a].token) # 0
     THEN Answer(a, authenticateToken(areq[a].token))
     ELSE apc' = [apc EXCEPT ![a] = "admitted"] /\ UNCHANGED ares
  /\ UNCHANGED <<dbVars, orders_id_seq, tx, owner, cache, callVars, stock0,
                 adminOps, listings, ordersAtUpdate, invalidation, listVars,
                 statusVars, readVars, auxVars, seqVars, catalogVars, adminReqs, areq>>

\* router.use(authenticateToken); router.use(requireAdmin)
AdminGate(a) ==
  /\ apc[a] = "gate"
  /\ IF authenticateToken(areq[a].token) # 0
     THEN Answer(a, authenticateToken(areq[a].token))
     ELSE IF requireAdmin(areq[a].token) # 0
     THEN Answer(a, requireAdmin(areq[a].token))
     ELSE apc' = [apc EXCEPT ![a] = "admitted"] /\ UNCHANGED ares
  /\ UNCHANGED <<dbVars, orders_id_seq, tx, owner, cache, callVars, stock0,
                 adminOps, listings, ordersAtUpdate, invalidation, listVars,
                 statusVars, readVars, auxVars, seqVars, catalogVars, adminReqs, areq>>

\* createProduct: createProductSchema accepts the body (a product with or
\* without category_id, 0 standing for none); a category_id that is given is
\* looked up (400 'Category not found')
CreateProductCategory(a) ==
  /\ apc[a] = "admitted"
  /\ \E cid \in {0} \cup RequestedCategoryIds :
       /\ areq' = [areq EXCEPT ![a].route = "createProduct", ![a].cid = cid]
       /\ IF cid = 0 \/ cid \in categories
          THEN apc' = [apc EXCEPT ![a] = "insertProduct"] /\ UNCHANGED ares
          ELSE Answer(a, 400)
  /\ UNCHANGED <<dbVars, orders_id_seq, tx, owner, cache, callVars, stock0,
                 adminOps, listings, ordersAtUpdate, invalidation, listVars,
                 statusVars, readVars, auxVars, seqVars, catalogVars, adminReqs>>

\* createProduct: INSERT INTO products ... RETURNING id (a foreign-key
\* violation is answered 500)
CreateProductInsert(a) ==
  /\ apc[a] = "insertProduct"
  /\ products_id_seq \in Products
  /\ IF areq[a].cid # 0 /\ ~CategoryForeignKey(categories, areq[a].cid)
     THEN /\ Answer(a, 500)
          /\ UNCHANGED <<products, present, categoryOf, areq, awrote>>
     ELSE /\ present' = present \cup {products_id_seq}
          /\ products' = [products EXCEPT ![products_id_seq] =
                            [price |-> products_id_seq,
                             stock_quantity |-> stock0[products_id_seq]]]
          /\ categoryOf' = [categoryOf EXCEPT ![products_id_seq] = areq[a].cid]
          /\ areq' = [areq EXCEPT ![a].pid = products_id_seq]
          /\ Written(a)
  /\ products_id_seq' = products_id_seq + 1
  /\ UNCHANGED <<orders, order_items, orders_id_seq, tx, owner, cache,
                 callVars, stock0, adminOps, listings, ordersAtUpdate,
                 invalidation, listVars, statusVars, readVars, restVars, ainv,
                 categories, categories_id_seq, adminReqs>>

\* createCategory: SELECT id FROM categories WHERE name = $1 (409 if the
\* name is taken); the name is given by the category that has it, 0 for a
\* name no category has
CreateCategoryFind(a) ==
  /\ apc[a] = "admitted"
  /\ \E name \in {0} \cup categories :
       /\ areq' = [areq EXCEPT ![a].route = "createCategory"]
       /\ IF name = 0
          THEN apc' = [apc EXCEPT ![a] = "insertCategory"] /\ UNCHANGED ares
          ELSE Answer(a, 409)
  /\ UNCHANGED <<dbVars, orders_id_seq, tx, owner, cache, callVars, stock0,
                 adminOps, listings, ordersAtUpdate, invalidation, listVars,
                 statusVars, readVars, auxVars, seqVars, catalogVars, adminReqs>>

\* createCategory: INSERT INTO categories (name) ... RETURNING id
CreateCategoryInsert(a) ==
  /\ apc[a] = "insertCategory"
  /\ categories_id_seq \in RequestedCategoryIds
  /\ categories' = categories \cup {categories_id_seq}
  /\ categories_id_seq' = categories_id_seq + 1
  /\ areq' = [areq EXCEPT ![a].cid = categories_id_seq]
  /\ Written(a)
  /\ UNCHANGED <<dbVars, orders_id_seq, tx, owner, cache, callVars, stock0,
                 adminOps, listings, ordersAtUpdate, invalidation, listVars,
                 statusVars, readVars, restVars, ainv, present, categoryOf,
                 products_id_seq, adminReqs>>

\* updateCategory: SELECT id FROM categories WHERE id = $1 (404 if none)
UpdateCategoryFind(a) ==
  /\ apc[a] = "admitted"
  /\ \E cid \in RequestedCategoryIds :
       /\ areq' = [areq EXCEPT ![a].route = "updateCategory", ![a].cid = cid]
       /\ IF cid \in categories
          THEN apc' = [apc EXCEPT ![a] = "catName"] /\ UNCHANGED ares
          ELSE Answer(a, 404)
  /\ UNCHANGED <<dbVars, orders_id_seq, tx, owner, cache, callVars, stock0,
                 adminOps, listings, ordersAtUpdate, invalidation, listVars,
                 statusVars, readVars, auxVars, seqVars, catalogVars, adminReqs>>

\* updateCategory: SELECT id FROM categories WHERE name = $1 AND id != $2
\* (409 if another category has the name); holder is the other category
\* that has the new name, 0 when none has it
UpdateCategoryName(a) ==
  /\ apc[a] = "catName"
  /\ \E holder \in {0} \cup (categories \ {areq[a].cid}) :
       IF holder # 0
       THEN Answer(a, 409)
       ELSE apc' = [apc EXCEPT ![a] = "catUpdate"] /\ UNCHANGED ares
  /\ UNCHANGED <<dbVars, orders_id_seq, tx, owner, cache, callVars, stock0,
                 adminOps, listings, ordersAtUpdate, invalidation, listVars,
                 statusVars, readVars, auxVars, seqVars, catalogVars, adminReqs,
                 areq>>

\* updateCategory: UPDATE categories SET name = $1 WHERE id = $2 (the name is
\* no part of the state; a row that is gone is no error)
UpdateCategoryWrite(a) ==
  /\ apc[a] = "catUpdate"
  /\ Written(a)
  /\ UNCHANGED <<dbVars, orders_id_seq, tx, owner, cache, callVars, stock0,
                 adminOps, listings, ordersAtUpdate, invalidation, listVars,
                 statusVars, readVars, restVars, ainv, seqVars, catalogVars,
                 adminReqs, areq>>

\* the routes of the admin router
AdminRoutes == {"createProduct", "updateProduct", "deleteProduct",
                "createCategory", "updateCategory", "deleteCategory"}

\* a handler's first statements: an id parameter that is no number or a
\* body its schema rejects is answered 400 before any query
InvalidInput(a) ==
  /\ apc[a] = "admitted"
  /\ \E route \in AdminRoutes : areq' = [areq EXCEPT ![a].route = route]
  /\ Answer(a, 400)
  /\ UNCHANGED <<dbVars, orders_id_seq, tx, owner, cache, callVars, stock0,
                 adminOps, listings, ordersAtUpdate, invalidation, listVars,
                 statusVars, readVars, auxVars, seqVars, catalogVars, adminReqs>>

\* ------------------------------------------------------------------ Next
\* concurrent createOrder calls against a store that rejects no statement
\* the statements of one createOrder call
CreateOrder(p) ==
  \/ Connect(p)
  \/ Begin(p)
  \/ CheckItem(p)
  \/ RollbackNotFound(p)
  \/ RollbackInsufficient(p)
  \/ InsertOrder(p)
  \/ InsertOrderItem(p)
  \/ UpdateStock(p)
  \/ Commit(p)
  \/ InvalidateProductCache(p)
  \/ ReadBack(p)
  \/ Catch(p)
  \/ Release(p)

\* ... and what the store does to a call that waits in a lock cycle
PlaceOrder(p) ==
  \/ CreateOrder(p)
  \/ DeadlockDetected(p)

NextOrders == \E p \in Calls : PlaceOrder(p)

\* ... against a store that may reject any statement
NextFaults ==
  \/ \E p \in Calls : PlaceOrder(p)
  \/ \E p \in Calls : StatementFails(p)

\* ... next to the admin's updateProduct requests
NextAdmin ==
  \/ \E p \in Calls : PlaceOrder(p)
  \/ \E pid \in Products : updateProduct(pid)

\* ... next to product-listing requests
NextListing ==
  \/ \E p \in Calls : PlaceOrder(p)
  \/ ListGet
  \/ ListRead
  \/ ListSet
  \/ CacheExpires

\* ... next to updateOrderStatus requests
NextStatus ==
  \/ \E p \in Calls : PlaceOrder(p)
  \/ updateOrderStatus

\* ... next to the customers' read requests
NextReads ==
  \/ \E p \in Calls : PlaceOrder(p)
  \/ getUserOrders
  \/ getOrderDetails

\* ... next to deleteProduct requests of one admin, one request at a time
NextDelete ==
  \/ \E p \in Calls : PlaceOrder(p)
  \/ Admit(1)
  \/ DeleteProductFind(1)
  \/ DeleteProductCount(1)
  \/ DeleteProductDelete(1)
  \/ InvalidateCatalogCache(1)

\* concurrent admin requests that assign and delete categories
NextCategories ==
  \/ \E a \in Admins : Admit(a)
  \/ \E a \in Admins : UpdateProductFind(a)
  \/ \E a \in Admins : UpdateProductCategory(a)
  \/ \E a \in Admins : UpdateProductWrite(a)
  \/ \E a \in Admins : DeleteCategoryFind(a)
  \/ \E a \in Admins : DeleteCategoryCount(a)
  \/ \E a \in Admins : DeleteCategoryDelete(a)
  \/ \E a \in Admins : InvalidateCatalogCache(a)

\* one customer's createOrder call next to the requests one client sends to
\* the admin router and to the order status endpoint
NextGate ==
  \/ CreateOrder(1)
  \/ updateOrderStatus
  \/ Arrive(1)
  \/ AdminGate(1)
  \/ CreateProductCategory(1)
  \/ CreateProductInsert(1)
  \/ UpdateProductFind(1)
  \/ UpdateProductCategory(1)
  \/ UpdateProductWrite(1)
  \/ DeleteProductFind(1)
  \/ DeleteProductCount(1)
  \/ DeleteProductDelete(1)
  \/ InvalidateCatalogCache(1)
  \/ CreateCategoryFind(1)
  \/ CreateCategoryInsert(1)
  \/ DeleteCategoryFind(1)
  \/ DeleteCategoryCount(1)
  \/ DeleteCategoryDelete(1)

\* the catalog seeded with product 1 only, one unit of each product in stock
InitGate == InitCatalog({1}) /\ \A pid \in Products : stock0[pid] = 1

\* the six admin catalog handlers next to a customer's createOrder call and
\* the listing requests that fill the cache
NextCatalog ==
  \/ CreateOrder(1)
  \/ ListGet
  \/ ListRead
  \/ ListSet
  \/ Admit(1)
  \/ InvalidInput(1)
  \/ CreateProductCategory(1)
  \/ CreateProductInsert(1)
  \/ UpdateProductFind(1)
  \/ UpdateProductCategory(1)
  \/ UpdateProductWrite(1)
  \/ DeleteProductFind(1)
  \/ DeleteProductCount(1)
  \/ DeleteProductDelete(1)
  \/ CreateCategoryFind(1)
  \/ CreateCategoryInsert(1)
  \/ UpdateCategoryFind(1)
  \/ UpdateCategoryName(1)
  \/ UpdateCategoryWrite(1)
  \/ DeleteCategoryFind(1)
  \/ DeleteCategoryCount(1)
  \/ DeleteCategoryDelete(1)
  \/ InvalidateCatalogCache(1)

\* Redis is down: a createOrder call, listing requests and the admin catalog
\* handlers
NextOutage ==
  \/ CreateOrder(1)
  \/ ListGet
  \/ ListRead
  \/ ListSet
  \/ Admit(1)
  \/ CreateProductCategory(1)
  \/ CreateProductInsert(1)
  \/ UpdateProductFind(1)
  \/ UpdateProductCategory(1)
  \/ UpdateProductWrite(1)
  \/ DeleteProductFind(1)
  \/ DeleteProductCount(1)
  \/ DeleteProductDelete(1)
  \/ CreateCategoryFind(1)
  \/ CreateCategoryInsert(1)
  \/ DeleteCategoryFind(1)
  \/ DeleteCategoryCount(1)
  \/ DeleteCategoryDelete(1)
  \/ InvalidateCatalogCache(1)

\* the catalog seeded with product 1, one unit of each product in stock, and
\* no Redis server to reach
InitOutage ==
  /\ InitStore({1})
  /\ \A pid \in Products : stock0[pid] = 1
  /\ KeysIdle
  /\ redis = "down"

\* two listing requests build their cache keys and their queries
NextKeys == \E r \in KeyRequests : BuildCacheKey(r) \/ BuildDataSql(r)

\* two listing requests with any parameters, against the stocked catalog
InitKeys ==
  /\ InitStore(Products)
  /\ \A pid \in Products : stock0[pid] = MaxStock
  /\ reqQuery \in [KeyRequests -> [page : PageInputs, limit : LimitInputs,
                                   category : CategoryInputs,
                                   search : SearchInputs]]
  /\ cacheKey = [r \in KeyRequests |-> NoKey]
  /\ dataSql = [r \in KeyRequests |-> NoSql]
  /\ redis = "up"

\* every product fully stocked at the start (the admin sets any other stock)
InitStocked == Init /\ \A pid \in Products : stock0[pid] = MaxStock

SpecOrders == Init /\ [][NextOrders]_vars
SpecFaults == Init /\ [][NextFaults]_vars
SpecAdmin == InitStocked /\ [][NextAdmin]_vars
SpecListing == InitStocked /\ [][NextListing]_vars
SpecStatus == InitStocked /\ [][NextStatus]_vars
SpecReads == InitStocked /\ [][NextReads]_vars
SpecDelete == InitStocked /\ [][NextDelete]_vars
SpecCategories == Init /\ [][NextCategories]_vars
SpecGate == InitGate /\ [][NextGate]_vars
SpecKeys == InitKeys /\ [][NextKeys]_vars
SpecOutage == InitOutage /\ [][NextOutage]_vars
SpecCatalog == InitGate /\ [][NextCatalog]_vars

\* ------------------------------------------------------------------ the cart
\* cartAPI of the frontend: the cart is the JSON text under the key 'cart' of
\* the browser's localStorage, an array of {productId, quantity}. Every
\* function is synchronous. The pages call addToCart with quantity 1 and
\* updateCartItem with a stored quantity plus or minus one, so quantities are
\* integers, which JSON.stringify and JSON.parse carry unchanged.

\* the most units addToCart may bring the cart to
MaxCartUnits == 5
\* the quantities updateCartItem is called with
UpdateQuantities == -1 .. MaxCartUnits

\* localStorage.setItem('cart', JSON.stringify(cart))
setItem(cart) == <<cart>>

\* getCart: cart ? JSON.parse(cart) : []
getCart == IF localStorage = NoItem THEN <<>> ELSE localStorage[1]

\* cart.find(item => item.productId === productId): the index of the first
\* match, 0 for undefined
find(cart, productId) ==
  LET hits == {i \in 1 .. Len(cart) : cart[i].productId = productId}
  IN IF hits = {} THEN 0 ELSE CHOOSE i \in hits : \A j \in hits : i <= j

\* cart.filter(item => item.productId !== productId)
RECURSIVE filter(_, _)
filter(cart, productId) ==
  IF cart = <<>> THEN <<>>
  ELSE IF Head(cart).productId # productId
       THEN <<Head(cart)>> \o filter(Tail(cart), productId)
       ELSE filter(Tail(cart), productId)

\* cart.reduce((total, item) => total + item.quantity, 0)
RECURSIVE reduce(_, _)
reduce(cart, total) ==
  IF cart = <<>> THEN total
  ELSE reduce(Tail(cart), total + Head(cart).quantity)

\* an addToCart that pushes a new entry without looking for an existing one
addToCart_AlwaysPushes(productId, quantity) ==
  /\ reduce(getCart, 0) + quantity <= MaxCartUnits
  /\ localStorage' = setItem(Append(getCart, [productId |-> productId,
                                              quantity |-> quantity]))
  /\ UNCHANGED <<dbVars, orders_id_seq, tx, owner, cache, callVars, stock0,
                 adminOps, listings, ordersAtUpdate, invalidation, listVars,
                 statusVars, readVars, gateVars, keyVars, redis, invVars,
                 cacheTtl, cartItemCount>>

\* addToCart: the existing entry's quantity grows, or a new entry is pushed
addToCart(productId, quantity) ==
  /\ reduce(getCart, 0) + quantity <= MaxCartUnits
  /\ LET cart == getCart
         existingItem == find(cart, productId)
     IN localStorage' = setItem(
          IF existingItem # 0
          THEN [cart EXCEPT ![existingItem].quantity = @ + quantity]
          ELSE Append(cart, [productId |-> productId, quantity |-> quantity]))
  /\ UNCHANGED <<dbVars, orders_id_seq, tx, owner, cache, callVars, stock0,
                 adminOps, listings, ordersAtUpdate, invalidation, listVars,
                 statusVars, readVars, gateVars, keyVars, redis, invVars,
                 cacheTtl, cartItemCount>>

\* removeFromCart: the cart without the product's entries is stored
removeFromCart(productId) ==
  /\ localStorage' = setItem(filter(getCart, productId))
  /\ UNCHANGED <<dbVars, orders_id_seq, tx, owner, cache, callVars, stock0,
                 adminOps, listings, ordersAtUpdate, invalidation, listVars,
                 statusVars, readVars, gateVars, keyVars, redis, invVars,
                 cacheTtl, cartItemCount>>

\* updateCartItem: nothing without an entry; quantity <= 0 removes it;
\* otherwise the entry found takes the quantity
updateCartItem(productId, quantity) ==
  /\ LET cart == getCart
         item == find(cart, productId)
     IN localStorage' =
          IF item = 0 THEN localStorage
          ELSE IF quantity <= 0 THEN setItem(filter(getCart, productId))
          ELSE setItem([cart EXCEPT ![item].quantity = quantity])
  /\ UNCHANGED <<dbVars, orders_id_seq, tx, owner, cache, callVars, stock0,
                 adminOps, listings, ordersAtUpdate, invalidation, listVars,
                 statusVars, readVars, gateVars, keyVars, redis, invVars,
                 cacheTtl, cartItemCount>>

\* clearCart: localStorage.removeItem('cart')
clearCart ==
  /\ localStorage' = NoItem
  /\ UNCHANGED <<dbVars, orders_id_seq, tx, owner, cache, callVars, stock0,
                 adminOps, listings, ordersAtUpdate, invalidation, listVars,
                 statusVars, readVars, gateVars, keyVars, redis, invVars,
                 cacheTtl, cartItemCount>>

\* getCartItemCount, its return value kept in cartItemCount
getCartItemCount ==
  /\ cartItemCount' = reduce(getCart, 0)
  /\ UNCHANGED <<dbVars, orders_id_seq, tx, owner, cache, callVars, stock0,
                 adminOps, listings, ordersAtUpdate, invalidation, listVars,
                 statusVars, readVars, gateVars, keyVars, redis, invVars,
                 cacheTtl, localStorage>>

NextCart ==
  \/ \E productId \in Products : \E quantity \in 1 .. MaxCartUnits :
       addToCart(productId, quantity)
  \/ \E productId \in Products : \E quantity \in UpdateQuantities :
       updateCartItem(productId, quantity)
  \/ \E productId \in Products : removeFromCart(productId)
  \/ clearCart
  \/ getCartItemCount

SpecCart == InitStocked /\ [][NextCart]_vars

\* one createOrder call, the listing requests and the expiry of the cached
\* listing
NextExpiry ==
  \/ CreateOrder(1)
  \/ ListGet
  \/ ListRead
  \/ ListSet
  \/ CacheExpires

\* the seeded catalogue with one unit of each product in stock
InitExpiry == Init /\ \A pid \in Products : stock0[pid] = 1

\* time passes: an entry whose TTL can run out is removed
SpecExpiry == InitExpiry /\ [][NextExpiry]_vars /\ WF_vars(CacheExpires)

\* a call whose next statement can run does run it (the event loop resumes
\* every await that has settled), and PostgreSQL's deadlock detector cancels
\* a statement that waits in a lock cycle
OrdersFairness ==
  \A p \in Calls : WF_vars(CreateOrder(p)) /\ WF_vars(DeadlockDetected(p))

SpecLive == InitStocked /\ [][NextOrders]_vars /\ OrdersFairness

\* ------------------------------------------------------------------ claims
AllDone == \A p \in Calls : pc[p] = "done"

\* the units of product pid in the committed order lines
Sold(pid) ==
  LET rows == {r \in order_items : r.product_id = pid}
  IN SumSet(rows, [r \in rows |-> r.quantity])

\* the committed order lines of order oid
LinesOf(oid) == {r \in order_items : r.order_id = oid}

\* C1: with no catalog adjustment (SpecOrders has none), the units of a
\* product in the committed orders never exceed its initial stock S, and once
\* every call has finished its stock_quantity is S minus those units.
C1_NoOversell ==
  \A pid \in Products :
    /\ Sold(pid) <= stock0[pid]
    /\ AllDone => products[pid].stock_quantity = stock0[pid] - Sold(pid)

\* two calls have committed an order each and sold out product 1 between them
C1_Witness ==
  /\ AllDone
  /\ Cardinality(orders) = 2
  /\ stock0[1] = MaxStock
  /\ Sold(1) = stock0[1]
  /\ \A o \in orders : \E r \in LinesOf(o.id) : r.product_id = 1

\* C2: while createOrder transactions and updateProduct stock adjustments
\* interleave, every product's stock_quantity is >= 0, in the committed row
\* and in the row version any open transaction sees.
C2_StockNonNegative ==
  \A pid \in Products :
    /\ products[pid].stock_quantity >= 0
    /\ \A c \in Conns : VisibleStock(c, pid) >= 0

\* an admin lowered the stock under a call that had passed its stock check:
\* the call's decrement was refused, and nothing was sold
C2_Witness ==
  /\ adminOps > 0
  /\ orders = {}
  /\ \E p \in Calls :
       /\ error[p] = "23514"
       /\ Len(items[p]) = 1
       /\ \A q \in Calls \ {p} : pc[q] = "idle"

\* C3 (as claimed): stock 1 for product 1, two calls that each ask for one
\* unit of it: once both have finished, exactly one has committed, the stock
\* is 0, and the other was answered InsufficientStock(available 0, requested 1).
C3_LoserGetsInsufficientStock ==
  ( /\ pc[1] = "done" /\ pc[2] = "done"
    /\ stock0[1] = 1
    /\ items[1] = <<Line(1, 1)>> /\ items[2] = <<Line(1, 1)>>
    /\ userId[1] # 0 /\ userId[2] # 0 )
  => \E w \in {1, 2} :
       LET l == 3 - w
       IN /\ response[w].kind = "created"
          /\ products[1].stock_quantity = 0
          /\ response[l].kind = "insufficient_stock"
          /\ response[l].available = 0
          /\ response[l].requested = 1

\* a call answered ProductNotFound or InsufficientStock
Rejected(p) == response[p].kind \in {"not_found", "insufficient_stock"}

\* C4: a call rejected with ProductNotFound or InsufficientStock on any cart
\* line has inserted no order, its transaction is rolled back with nothing
\* pending, no order line of it is committed, and the committed stock is the
\* initial stock minus the units of the committed orders (of other calls).
C4_RejectedCartLeavesNothing ==
  \A p \in Calls :
    Rejected(p) =>
      /\ order[p] = 0
      /\ client[p] # 0 => tx[client[p]] = NoTx
      /\ \A o \in orders : \E q \in Calls \ {p} : order[q] = o.id
      /\ \A r \in order_items : \E o \in orders : o.id = r.order_id
      /\ \A pid \in Products :
           products[pid].stock_quantity = stock0[pid] - Sold(pid)

\* a two-line cart whose first line passed the checks and whose second line
\* was rejected, with the stock of the first line's product untouched
C4_Witness ==
  \E p \in Calls :
    /\ Rejected(p)
    /\ pc[p] = "finally"
    /\ Len(items[p]) = 2
    /\ idx[p] = 2
    /\ Len(orderItems[p]) = 1
    /\ orders = {}
    /\ products[items[p][1].productId].stock_quantity = stock0[items[p][1].productId]

OrderIds == {o.id : o \in orders}

C6_NoOpenTransactionInPool ==
  \A c \in Conns : owner[c] = 0 => tx[c].state # "open"

\* C7: a call holds a client from connect to release; the client is held by
\* that call only; release runs exactly once, at the end of the call, on
\* every exit path; a call that has released holds no client any more (so it
\* issues no statement on it).
C7_ClientOwnedAndReleasedOnce ==
  /\ \A p \in Calls :
       /\ released[p] = (IF pc[p] = "done" THEN 1 ELSE 0)
       /\ pc[p] \notin {"idle", "done"} =>
            client[p] \in Conns /\ owner[client[p]] = p
       /\ pc[p] \in {"idle", "done"} =>
            client[p] = 0 /\ \A c \in Conns : owner[c] # p
  /\ \A p, q \in Calls : (p # q /\ client[p] # 0) => client[p] # client[q]

\* both calls have finished, one through the success path and one through
\* the catch block, each having released once
C7_Witness ==
  /\ AllDone
  /\ \E p, q \in Calls :
       /\ response[p].kind = "internal"
       /\ response[q].kind = "created"
       /\ released[p] = 1 /\ released[q] = 1

\* C8 (as claimed): a request with a malformed body is rejected before any
\* transaction is opened, and the rejection leaves the tables and the cache
\* unchanged.
C8_InvalidInputOpensNoTransaction ==
  [][\A p \in Calls :
       (response[p].kind = "none" /\ response'[p].kind = "invalid")
       => /\ tx'[client[p]].state = "none"
          /\ UNCHANGED <<dbVars, cache>>]_vars

\* C9: every committed order has at least one line, exactly one per cart
\* line of the request that created it, and every committed order line
\* belongs to a committed order.
C9_OrderAndLinesTogether ==
  /\ \A o \in orders :
       /\ LinesOf(o.id) # {}
       /\ \E p \in Calls :
            order[p] = o.id /\ Cardinality(LinesOf(o.id)) = Len(items[p])
  /\ \A r \in order_items : r.order_id \in OrderIds

\* a two-line order is committed while another call, which had inserted its
\* order, failed and left nothing
C9_Witness ==
  /\ \E o \in orders : Cardinality(LinesOf(o.id)) = 2
  /\ \E q \in Calls :
       /\ error[q] = "io"
       /\ pc[q] = "done"
       /\ order[q] # 0
       /\ order[q] \notin OrderIds

\* the total of the committed order lines of order oid
LineTotal(oid) ==
  SumSet(LinesOf(oid), [r \in LinesOf(oid) |-> r.unit_price * r.quantity])

TotalMatches == \A o \in orders : o.total_amount = LineTotal(o.id)

\* a unit price enters orderItems only as the price the product row has in
\* the store when the call's SELECT reads it, inside the call's transaction;
\* an order line is inserted with that unit price and the cart line's
\* product and quantity; lines reach the table only through COMMIT
PriceCaptured ==
  /\ \A p \in Calls :
       Len(orderItems'[p]) = Len(orderItems[p]) + 1 =>
         LET n == Len(orderItems'[p])
         IN /\ tx[client[p]].state = "open"
            /\ orderItems'[p][n].unitPrice = products[items[p][n].productId].price
  /\ \A c \in Conns :
       \A r \in tx'[c].order_items \ tx[c].order_items :
         \E p \in Calls :
           /\ client[p] = c
           /\ order[p] = r.order_id
           /\ r.unit_price = orderItems[p][r.line].unitPrice
           /\ r.product_id = items[p][r.line].productId
           /\ r.quantity = items[p][r.line].quantity
  /\ \A r \in order_items' \ order_items :
       \E c \in Conns : r \in tx[c].order_items

\* C10: the total_amount of every committed order is the sum of unit_price x
\* quantity over its lines, and each unit_price is the price read from the
\* products table inside the order's transaction (a request carries no price).
C10_TotalFromStorePrices == []TotalMatches /\ [][PriceCaptured]_vars

\* a committed two-line order with a line of MaxQty units whose product has
\* changed its price since the order read it
C10_Witness ==
  \E o \in orders :
    /\ Cardinality(LinesOf(o.id)) = 2
    /\ \E r \in LinesOf(o.id) :
         r.quantity = MaxQty /\ r.unit_price # products[r.product_id].price

\* C11: a price change made by updateProduct leaves every committed order row
\* (its total_amount) and every committed order line (its unit_price) as they
\* are, and no later step rewrites a committed order row or order line.
C11_CommittedOrderKeepsPrices ==
  [][/\ (\E pid \in Products : products'[pid].price # products[pid].price)
         => UNCHANGED <<orders, order_items>>
     /\ orders \subseteq orders'
     /\ order_items \subseteq order_items']_vars

\* an order that was committed when updateProduct changed the price of one of
\* its products still has the old unit price and the total of its lines
C11_Witness ==
  \E o \in orders \cap ordersAtUpdate :
    /\ \E r \in LinesOf(o.id) : r.unit_price # products[r.product_id].price
    /\ o.total_amount = LineTotal(o.id)

\* the calls that did not commit never invoked the invalidation, and a call
\* that committed has invoked it once it is past the invalidation step
InvalidatedIffCommitted ==
  \A p \in Calls :
    /\ invalidation[p] # "none" => order[p] \in OrderIds
    /\ response[p].kind \in {"invalid", "unauthenticated", "not_found",
                              "insufficient_stock"} => invalidation[p] = "none"
    /\ (error[p] # "none" /\ order[p] \notin OrderIds) => invalidation[p] = "none"
    /\ (order[p] \in OrderIds /\ pc[p] # "invalidate") => invalidation[p] # "none"

\* a step of a call that changes the cache, or that invokes the invalidation,
\* is the invalidation step of a call whose transaction has committed
CacheTouchedAfterCommit ==
  \A p \in Calls :
    (pc'[p] # pc[p] /\ (cache' # cache \/ invalidation'[p] # invalidation[p]))
    => /\ pc[p] = "invalidate"
       /\ order[p] \in OrderIds
       /\ tx[client[p]].state = "none"

\* C12: createOrder invalidates the product cache only after its COMMIT: a
\* call that ends in invalid input, ProductNotFound, InsufficientStock or a
\* rollback deletes no cache key, and every call that commits invokes
\* delByPattern('products:*') after the commit.
C12_InvalidatesOnlyAfterCommit ==
  []InvalidatedIffCommitted /\ [][CacheTouchedAfterCommit]_vars

\* one call committed and deleted the cache keys; the other was rejected for
\* insufficient stock while a listing was cached, and the entry is still there
C12_Witness ==
  \E p, q \in Calls :
    /\ pc[p] = "done" /\ invalidation[p] = "deleted"
    /\ pc[q] = "done" /\ response[q].kind = "insufficient_stock"
    /\ cache # {}

\* a call whose invalidation failed keeps its committed order, lines and
\* stock decrement, carries no error, and is answered with the success result
FailedInvalidationKeepsOrder ==
  \A p \in Calls :
    invalidation[p] = "failed" =>
      /\ order[p] \in OrderIds
      /\ LinesOf(order[p]) # {}
      /\ error[p] = "none"
      /\ pc[p] \in {"finally", "done"} => response[p].kind = "created"
      /\ \A pid \in Products :
           products[pid].stock_quantity = stock0[pid] - Sold(pid)

\* the failing invalidation itself changes no table and goes on to the read-back
FailedInvalidationSwallowed ==
  \A p \in Calls :
    (invalidation'[p] = "failed" /\ invalidation[p] # "failed")
    => UNCHANGED dbVars /\ pc'[p] = "readBack"

\* C13: a cache failure during the invalidation after the commit is
\* swallowed: the order stays committed, the stock decrement stays, and the
\* caller receives the success result.
C13_CacheFailureSwallowed ==
  []FailedInvalidationKeepsOrder /\ [][FailedInvalidationSwallowed]_vars

\* a call has returned the success result although its invalidation failed
\* and left the cached listing in place
C13_Witness ==
  \E p \in Calls :
    /\ pc[p] = "done"
    /\ invalidation[p] = "failed"
    /\ response[p].kind = "created"
    /\ order[p] \in OrderIds
    /\ cache # {}

\* the units of product pid in the committed lines of order oid
UnitsIn(oid, pid) ==
  LET rows == {r \in LinesOf(oid) : r.product_id = pid}
  IN SumSet(rows, [r \in rows |-> r.quantity])

\* C14 (as claimed): once a call has committed an order and returned, a
\* listing request that is answered from the cache reports, for every product
\* of that order, a stock that counts the order's units (never the stock from
\* before the sale).
C14_NoStaleListingAfterOrder ==
  [][(listings' = listings + 1 /\ answer'.from = "cache" /\ lpc' = "idle")
     => \A p \in Calls :
          (pc[p] = "done" /\ response[p].kind = "created")
          => \A rows \in answer'.rows : \A pid \in Products :
               rows[pid].stock_quantity <= stock0[pid] - UnitsIn(order[p], pid)]_vars

\* every order row enters the table with status pending; no step of a
\* createOrder call changes a committed order row; a committed order row
\* changes only in an updateOrderStatus request of a verified admin token
\* that is answered 200
StatusChangesByAdminOnly ==
  /\ \A o \in orders' : o.id \notin OrderIds => o.status = "pending"
  /\ (\E p \in Calls : pc'[p] # pc[p]) => orders \subseteq orders'
  /\ ~(orders \subseteq orders')
       => sreq' = "admin" /\ sres' = 200 /\ statusOps' = statusOps + 1

\* C15: every order is inserted with status pending, createOrder never
\* changes the status of an existing order, and an order's status changes
\* only through updateOrderStatus invoked with a verified admin token.
C15_StatusPendingThenAdminOnly ==
  /\ [](\A c \in Conns : \A o \in tx[c].orders : o.status = "pending")
  /\ [][StatusChangesByAdminOnly]_vars

\* an admin has moved one order off pending while a second order, committed
\* by the other call, is pending
C15_Witness ==
  /\ sreq = "admin" /\ sres = 200
  /\ \E o, n \in orders :
       /\ o.status # "pending"
       /\ n.status = "pending"
       /\ n.id > o.id

\* the documented order status flow
StatusFlow ==
  {<<"pending", "confirmed">>, <<"confirmed", "shipped">>,
   <<"shipped", "delivered">>, <<"pending", "cancelled">>}

\* C16 (as claimed): an order's status moves only along pending -> confirmed
\* -> shipped -> delivered or pending -> cancelled.
C16_StatusFollowsFlow ==
  [][\A o \in orders : \A n \in orders' :
       (n.id = o.id /\ n.status # o.status)
       => <<o.status, n.status>> \in StatusFlow]_vars

\* C17 (as claimed): getUserOrders returns exactly the reader's own orders,
\* getOrderDetails returns an order to its owner only, and a request for an
\* order of another user is answered 'Order not found' (404).
C17_OrdersOnlyToOwner ==
  [][reads' = reads + 1 =>
       /\ \A oid \in rres'.ids :
            \E o \in orders : o.id = oid /\ o.user_id = rres'.uid
       /\ (rres'.route = "getUserOrders" /\ rres'.code = 200)
            => rres'.ids = {o.id : o \in {x \in orders : x.user_id = rres'.uid}}
       /\ ( /\ rres'.route = "getOrderDetails"
            /\ rres'.uid # 0
            /\ \E o \in orders : o.id = rres'.oid /\ o.user_id # rres'.uid )
            => rres'.code = 404]_vars

\* C19: in every committed state each order line references an existing
\* product, and a step that removes a product removes one that no committed
\* order line references, whatever createOrder does concurrently.
C19_NoDeleteOfOrderedProduct ==
  /\ [](\A r \in order_items : r.product_id \in present)
  /\ [][\A pid \in present \ present' :
          \A r \in order_items' : r.product_id # pid]_vars

\* a deleteProduct request passed its order check, an order for the product
\* committed, and the DELETE was refused: the product is still there
C19_Witness ==
  \E a \in Admins :
    /\ areq[a].route = "deleteProduct"
    /\ ares[a] = 500
    /\ areq[a].pid \in present
    /\ \E r \in order_items : r.product_id = areq[a].pid

\* C20 (as claimed): a step that removes a category removes one that no
\* product is assigned to, and no product loses its category in that step,
\* whatever updateProduct does concurrently.
C20_NoDeleteOfUsedCategory ==
  [][\A cid \in categories \ categories' :
       /\ \A p \in present : categoryOf[p] # cid
       /\ UNCHANGED categoryOf]_vars

\* what an admin request or a status update can write: the tables, the
\* catalog and the cache
GuardedStore == <<dbVars, catalogVars, seqVars, cache>>

\* a step of the admin router's slot a: the gate rejects a request without a
\* token with 401 and one with an invalid or a customer token with 403,
\* writing nothing; a step that writes belongs to a request with an admin token
AdminRouteGated(a) ==
  (apc'[a] # apc[a] /\ apc[a] # "idle") =>
    /\ (apc[a] = "gate" /\ areq[a].token = "none")
         => ares'[a] = 401 /\ apc'[a] = "idle" /\ UNCHANGED GuardedStore
    /\ (apc[a] = "gate" /\ areq[a].token \in {"invalid", "customer"})
         => ares'[a] = 403 /\ apc'[a] = "idle" /\ UNCHANGED GuardedStore
    /\ GuardedStore' # GuardedStore => areq[a].token = "admin"

\* an updateOrderStatus request: 401 without a token, 403 with an invalid or
\* a customer token, writing nothing; orders change only for an admin token
StatusRouteGated ==
  statusOps' # statusOps =>
    /\ sreq' = "none" => sres' = 401 /\ UNCHANGED GuardedStore
    /\ sreq' \in {"invalid", "customer"} => sres' = 403 /\ UNCHANGED GuardedStore
    /\ GuardedStore' # GuardedStore => sreq' = "admin"

C21_DifferentQueriesDifferentKeys ==
  \A r1, r2 \in KeyRequests :
    (dataSql[r1] # NoSql /\ dataSql[r2] # NoSql /\ dataSql[r1] # dataSql[r2])
      => cacheKey[r1] # cacheKey[r2]

\* with Redis down nothing is ever cached, no listing is answered from the
\* cache or with an error, a createOrder call that committed is answered
\* with the success result, and an admin handler whose write ran is answered
\* with its success status
OutageResults ==
  /\ cache = {}
  /\ answer.from \in {"none", "db"}
  /\ \A p \in Calls :
       /\ invalidation[p] \in {"none", "failed"}
       /\ (pc[p] = "done" /\ order[p] \in OrderIds)
            => response[p].kind = "created" /\ invalidation[p] = "failed"
  /\ \A a \in Admins :
       /\ ainv[a] \in {"none", "failed"}
       /\ (awrote[a] /\ apc[a] = "idle")
            => ares[a] = SuccessCode(areq[a].route) /\ ainv[a] = "failed"

\* with Redis down a listing request goes from the failed get to the
\* database, reads the committed rows, and answers with the rows it read
OutageListing ==
  /\ listings' # listings => lpc' = "read"
  /\ (lpc = "read" /\ lpc' = "set") => fetched' = {products}
  /\ (lpc = "set" /\ lpc' = "idle")
       => answer' = [from |-> "db", rows |-> fetched]

RejectionCodes == {400, 404, 409}

\* an invalidation has a write before it; a request answered with success
\* has written and invalidated; a rejected request has done neither
InvalidatedWhenWritten ==
  \A a \in Admins :
    /\ ainv[a] # "none" => awrote[a]
    /\ (apc[a] = "idle" /\ ares[a] \in {200, 201})
         => awrote[a] /\ ainv[a] # "none"
    /\ (apc[a] = "idle" /\ ares[a] \in RejectionCodes)
         => ~awrote[a] /\ ainv[a] = "none"

\* the write leads to the invalidation, not to the response; delByPattern
\* runs in a later step than the write and removes every products:* key
\* unless Redis fails; a rejection leaves the cache as it is
InvalidationOrder ==
  \A a \in Admins :
    /\ (awrote'[a] /\ ~awrote[a]) => apc'[a] = "invalidate" /\ cache' = cache
    /\ (ainv'[a] # ainv[a] /\ ainv'[a] # "none")
         => /\ awrote[a]
            /\ ainv'[a] = "deleted" => cache' = {}
            /\ ares'[a] \in {200, 201}
    /\ (apc[a] # "idle" /\ apc'[a] = "idle" /\ ares'[a] \in RejectionCodes)
         => cache' = cache /\ UNCHANGED <<dbVars, catalogVars>>

\* C23: every successful createProduct, updateProduct, deleteProduct,
\* createCategory, updateCategory and deleteCategory invokes
\* delByPattern('products:*') after its database write and before it
\* responds; a request rejected for invalid input, a missing resource, a
\* name conflict or an existing dependency does not invalidate the cache.
C23_CatalogWritesInvalidate ==
  []InvalidatedWhenWritten /\ [][InvalidationOrder]_vars

\* a deleteCategory request was answered 200 after its invalidation emptied
\* the cache that a listing had filled
C23_Witness ==
  /\ areq[1].route = "deleteCategory"
  /\ apc[1] = "idle" /\ ares[1] = 200
  /\ ainv[1] = "deleted"
  /\ answer.from = "db" /\ lpc = "idle"
  /\ cache = {}

\* C24 (as claimed): a createOrder call reports success if and only if its
\* transaction committed; a caller that receives a failure has no order of
\* that call committed, also when the read-back after COMMIT fails.
C24_SuccessIffCommitted ==
  \A p \in Calls :
    pc[p] \in {"finally", "done"} =>
      (response[p].kind = "created" <=> order[p] \in OrderIds)

\* the units of product pid over all the lines of cart
CartUnits(cart, pid) ==
  LET ls == {i \in 1..Len(cart) : cart[i].productId = pid}
  IN SumSet(ls, [i \in ls |-> cart[i].quantity])

\* C25 (as claimed): a call that runs alone with a cart that lists one
\* product of the catalog in two lines is accepted if the product's stock
\* covers the total quantity of the lines; otherwise it is rejected with
\* InsufficientStock and nothing is written.
C25_DuplicateLinesSummed ==
  \A p \in Calls :
    ( /\ pc[p] = "done"
      /\ userId[p] # 0
      /\ \A q \in Calls \ {p} : pc[q] = "idle"
      /\ Len(items[p]) = 2
      /\ items[p][1].productId = items[p][2].productId
      /\ items[p][1].productId \in Products )
    => LET pid == items[p][1].productId
       IN IF CartUnits(items[p], pid) <= stock0[pid]
          THEN /\ response[p].kind = "created"
               /\ products[pid].stock_quantity
                    = stock0[pid] - CartUnits(items[p], pid)
          ELSE /\ response[p].kind = "insufficient_stock"
               /\ orders = {} /\ order_items = {}
               /\ products[pid].stock_quantity = stock0[pid]

\* while the first loop runs and when it rejects: the lines before idx are
\* the ones examined, in the order submitted, the line at idx is the one
\* under examination, and the call has inserted and updated nothing; a
\* rejection names the line at idx
LinesExaminedInOrder ==
  \A p \in Calls :
    /\ pc[p] \in {"check", "rollback404", "rollback400"} =>
         /\ idx[p] \in 1..Len(items[p])
         /\ Len(orderItems[p]) = idx[p] - 1
         /\ \A i \in 1..(idx[p] - 1) :
              /\ orderItems[p][i].productId = items[p][i].productId
              /\ orderItems[p][i].quantity = items[p][i].quantity
         /\ order[p] = 0
         /\ tx[client[p]].orders = {} /\ tx[client[p]].order_items = {}
         /\ \A pid \in Products : tx[client[p]].dec[pid] = 0
    /\ (pc[p] = "finally" /\ Rejected(p)) =>
         /\ response[p].product = items[p][idx[p]].productId
         /\ Len(orderItems[p]) = idx[p] - 1
         /\ order[p] = 0

\* one iteration of the first loop: the loop stops at a line whose product is
\* missing or under-stocked and goes on past a line that is neither
FirstFailingLineStops ==
  \A p \in Calls :
    (pc[p] = "check" /\ (pc'[p] # "check" \/ idx'[p] # idx[p])) =>
      LET item == items[p][idx[p]]
          failing == \/ item.productId \notin present
                     \/ InsufficientStock(ProductRow(client[p], item.productId), item)
      IN /\ failing => pc'[p] \in {"rollback404", "rollback400"} /\ idx'[p] = idx[p]
         /\ ~failing => pc'[p] \in {"check", "insertOrder"}
                         /\ Len(orderItems'[p]) = idx[p]
         /\ UNCHANGED <<dbVars, tx>>

\* C26: createOrder examines the cart lines in the order submitted and
\* reports the error of the first line whose product is missing or
\* under-stocked; the lines after it are not examined, and no insert or stock
\* update is issued before the failing line is reached.
C26_FirstFailingLineReported ==
  []LinesExaminedInOrder /\ [][FirstFailingLineStops]_vars

\* a call was rejected at its second line after its first line had passed
C26_Witness ==
  \E p \in Calls :
    /\ pc[p] = "finally"
    /\ Rejected(p)
    /\ idx[p] = 2
    /\ Len(orderItems[p]) = 1
    /\ response[p].product = items[p][2].productId
    /\ orders = {}

\* the products a cart names
ProductsOf(cart) == {cart[i].productId : i \in 1..Len(cart)}

\* the lines of cart that fail the first loop against the stock
FailingLines(cart, stock) ==
  {i \in 1..Len(cart) :
     \/ cart[i].productId \notin Products
     \/ stock[cart[i].productId] < cart[i].quantity}

\* what a validated, authenticated call with this cart is answered when it
\* runs alone against the stock: the rejection of its first failing line,
\* else the failure of an UPDATE that the CHECK constraint rejects, else 201
SoloKind(cart, stock) ==
  IF FailingLines(cart, stock) # {}
  THEN LET i == CHOOSE j \in FailingLines(cart, stock) :
                  \A k \in FailingLines(cart, stock) : j <= k
       IN IF cart[i].productId \notin Products THEN "not_found"
          ELSE "insufficient_stock"
  ELSE IF \E pid \in Products : CartUnits(cart, pid) > stock[pid]
  THEN "internal"
  ELSE "created"

\* the stock of product pid after that call
SoloStock(cart, stock, pid) ==
  IF SoloKind(cart, stock) = "created" THEN stock[pid] - CartUnits(cart, pid)
  ELSE stock[pid]

\* C27: a finished call none of whose products is in the cart of any other
\* call has the outcome, and has had the effect on its products' stock, that
\* it would have had running alone.
C27_DisjointCartsIndependent ==
  \A p \in Calls :
    ( /\ pc[p] = "done"
      /\ userId[p] # 0
      /\ \A q \in Calls \ {p} :
           userId[q] # 0 => ProductsOf(items[p]) \cap ProductsOf(items[q]) = {} )
    => /\ response[p].kind = SoloKind(items[p], stock0)
       /\ \A pid \in ProductsOf(items[p]) \cap Products :
            products[pid].stock_quantity = SoloStock(items[p], stock0, pid)

\* call 1 has committed its order of product 1 and returned while call 2,
\* which inserted its order of product 2 first, is still about to commit
C27_Witness ==
  /\ pc[1] = "done" /\ response[1].kind = "created"
  /\ ProductsOf(items[1]) = {1} /\ ProductsOf(items[2]) = {2}
  /\ pc[2] = "commit"
  /\ order[2] < order[1]

\* C28 (as claimed): every createOrder call that has taken its connection
\* eventually finishes with its transaction committed or rolled back and
\* releases the connection.
C28_EveryCallEndsItsTransaction ==
  \A p \in Calls :
    (pc[p] = "begin") ~> (pc[p] = "finally" /\ tx[client[p]].state = "none")

\* C29: every entry in the product-listing cache was written with the 60 s
\* expiry, and a cached entry (a stale one left by a failed or raced
\* invalidation included) is eventually absent without any invalidation.
C29_CachedEntryExpires ==
  /\ [](cache # {} => cacheTtl = ListingTtl)
  /\ (cache # {}) ~> (cache = {})

\* the call's invalidation failed, and the entry that a listing had written
\* is absent all the same
C29_Witness ==
  /\ pc[1] = "done" /\ response[1].kind = "created"
  /\ invalidation[1] = "failed"
  /\ cacheTtl = ListingTtl
  /\ cache = {}

\* the units of a product in a cart, over all of its entries
EntryUnits(cart, productId) ==
  SumSet({i \in 1 .. Len(cart) : cart[i].productId = productId},
         [i \in 1 .. Len(cart) |-> cart[i].quantity])

\* C30: the stored cart has at most one entry per productId, every entry's
\* quantity is greater than 0, an updateCartItem with quantity <= 0 leaves no
\* entry of the product, and getCartItemCount returns the sum of the entries'
\* quantities.
C30_CartWellFormed ==
  /\ [](\A i, j \in 1 .. Len(getCart) :
          getCart[i].productId = getCart[j].productId => i = j)
  /\ [](\A i \in 1 .. Len(getCart) : getCart[i].quantity > 0)
  /\ [][\A productId \in Products : \A quantity \in UpdateQuantities :
          (updateCartItem(productId, quantity) /\ quantity <= 0)
            => LET cart == IF localStorage' = NoItem THEN <<>>
                           ELSE localStorage'[1]
               IN find(cart, productId) = 0]_vars
  /\ [][getCartItemCount =>
          cartItemCount' =
            SumSet(Products, [productId \in Products |->
                               EntryUnits(getCart, productId)])]_vars

\* a cart of two entries, one of them with several units, counted
C30_Witness ==
  /\ Len(getCart) = 2
  /\ \E i \in 1 .. 2 : getCart[i].quantity > 1
  /\ cartItemCount = reduce(getCart, 0)

====
